---- MODULE Spec2Model ----
(***************************************************************************)
(* Step execution engine of the file-processing workflow: object store     *)
(* gateway (utils/read_n_write_s3.py), key resolver                        *)
(* (utils/bucket_helper.py), step result cache and the workflow steps      *)
(* (processors/workflow_processors).                                       *)
(*                                                                         *)
(* Strings that the code searches, splits or formats are sequences of      *)
(* tokens; "_rerun_", ".json" and "/" are single tokens, every decimal     *)
(* digit is a token, and every other token stands for a run of ordinary    *)
(* characters.                                                             *)
(***************************************************************************)
EXTENDS Integers, Sequences, FiniteSets, TLC

VARIABLES
    \* select_latest_rerun applied to a key list
    selKeys, selBase, selResult, selPc,
    \* the target bucket's objects and the gateway's _s3_connectors
    store, connectors,
    \* one request: its tracking model, the workflow being run and the
    \* runner's position in it
    tracking, workflow, stepIdx, runState, runs, context, trace, failure,
    \* write_raw_to_s3: the executions made and the record of the last one
    rawRuns, rawLast,
    \* get_s3_key_prefix: the UTC day of the clock, the arguments of a call,
    \* its result and the result of the same call made again
    clock, keyIn, keyOut, keyAgain, keyPc,
    \* get_bucket_name: the arguments of a call and its result
    bktIn, bktOut, bktPc,
    \* the gateway called directly: the calls made and the record of the last
    gwCalls, gwLast,
    \* one processor instance: the request it serves, its file_record, the
    \* times the document type and bucket names were resolved, the processor
    \* calls made and the record of the last one
    procIn, fileRecord, resolutions, procCalls, procLast,
    \* concurrent workflow runs on one gateway: each worker's position in
    \* its gateway operation, and the S3Connector objects constructed so far
    workers, built

selVars == <<selKeys, selBase, selResult, selPc>>

wfVars == <<store, connectors, tracking, workflow, stepIdx, runState, runs,
            context, trace, failure>>

rawVars == <<rawRuns, rawLast>>

keyVars == <<clock, keyIn, keyOut, keyAgain, keyPc>>

bktVars == <<bktIn, bktOut, bktPc>>

resolverVars == <<clock, keyIn, keyOut, keyAgain, keyPc, bktIn, bktOut, bktPc>>

vars == <<selKeys, selBase, selResult, selPc,
          store, connectors, tracking, workflow, stepIdx, runState, runs,
          context, trace, failure, rawRuns, rawLast,
          clock, keyIn, keyOut, keyAgain, keyPc, bktIn, bktOut, bktPc,
          gwCalls, gwLast, procIn, fileRecord, resolutions, procCalls,
          procLast, workers, built>>

\* no call of get_s3_key_prefix is under observation
KeyIdle ==
    /\ clock = 1
    /\ keyIn = <<>>
    /\ keyOut = <<>>
    /\ keyAgain = <<>>
    /\ keyPc = "idle"

\* no call of get_bucket_name is under observation
BktIdle ==
    /\ bktIn = <<>>
    /\ bktOut = <<>>
    /\ bktPc = "idle"

ResolverIdle == KeyIdle /\ BktIdle

gwVars == <<gwCalls, gwLast>>

procVars == <<procIn, fileRecord, resolutions, procCalls, procLast>>

callVars == <<gwCalls, gwLast, procIn, fileRecord, resolutions, procCalls,
              procLast>>

\* the gateway is not called directly
GwIdle ==
    /\ gwCalls = 0
    /\ gwLast = <<>>

\* no processor instance is under observation
ProcIdle ==
    /\ procIn = <<>>
    /\ fileRecord = [kind |-> "None"]
    /\ resolutions = 0
    /\ procCalls = 0
    /\ procLast = [kind |-> "None"]

CallIdle == GwIdle /\ ProcIdle

wkVars == <<workers, built>>

\* no concurrent runs are under observation
WkIdle ==
    /\ workers = <<>>
    /\ built = 0

-----------------------------------------------------------------------------
(* Python string primitives on token sequences *)

RERUN == "_rerun_"
JSON == ".json"
SLASH == "/"

Digits == {"0", "1", "2", "3", "4", "5", "6", "7", "8", "9"}

DigitVal(d) ==
    CASE d = "0" -> 0 [] d = "1" -> 1 [] d = "2" -> 2 [] d = "3" -> 3
      [] d = "4" -> 4 [] d = "5" -> 5 [] d = "6" -> 6 [] d = "7" -> 7
      [] d = "8" -> 8 [] d = "9" -> 9

DigitTok(n) ==
    CASE n = 0 -> "0" [] n = 1 -> "1" [] n = 2 -> "2" [] n = 3 -> "3"
      [] n = 4 -> "4" [] n = 5 -> "5" [] n = 6 -> "6" [] n = 7 -> "7"
      [] n = 8 -> "8" [] n = 9 -> "9"

\* positions at which sub occurs in s
Occurrences(s, sub) ==
    { i \in 1..(Len(s) - Len(sub) + 1) : SubSeq(s, i, i + Len(sub) - 1) = sub }

\* sub in s
Contains(s, sub) == Occurrences(s, sub) # {}

\* s.startswith(p)
StartsWith(s, p) == Len(p) <= Len(s) /\ SubSeq(s, 1, Len(p)) = p

SetMax(S) == CHOOSE m \in S : \A x \in S : x <= m

SetMin(S) == CHOOSE m \in S : \A x \in S : m <= x

\* s.split(sep)[-1] for a one-token separator
SplitLast(s, sep) ==
    IF ~Contains(s, <<sep>>) THEN s
    ELSE SubSeq(s, SetMax(Occurrences(s, <<sep>>)) + 1, Len(s))

\* s.split(sep)[0] for a one-token separator
SplitFirst(s, sep) ==
    IF ~Contains(s, <<sep>>) THEN s
    ELSE SubSeq(s, 1, SetMin(Occurrences(s, <<sep>>)) - 1)

RECURSIVE DigitsValue(_)
DigitsValue(ds) ==
    IF ds = <<>> THEN 0
    ELSE 10 * DigitsValue(SubSeq(ds, 1, Len(ds) - 1)) + DigitVal(ds[Len(ds)])

\* int(text): raises ValueError unless text is a non-empty run of digits
IntParses(ds) == ds # <<>> /\ \A i \in 1..Len(ds) : ds[i] \in Digits

RECURSIVE StrOfNat(_)
\* str(n) for n >= 0
StrOfNat(n) ==
    IF n < 10 THEN <<DigitTok(n)>>
    ELSE StrOfNat(n \div 10) \o <<DigitTok(n % 10)>>

-----------------------------------------------------------------------------
(* utils/read_n_write_s3.py: select_latest_rerun *)

NoKey == [kind |-> "None", key |-> <<>>]
RaisedValueError == [kind |-> "ValueError", key |-> <<>>]
SomeKey(k) == [kind |-> "key", key |-> k]

\* the text int() is applied to for key k
RerunNumberText(k) == SplitFirst(SplitLast(k, RERUN), JSON)

\* indexes of the keys the list comprehension keeps
RerunIndexes(keys, base_filename) ==
    { i \in 1..Len(keys) : Contains(keys[i], base_filename \o <<RERUN>>) }

\* max(reruns, key=lambda x: x[0]): the first element carrying the greatest number
MaxRerunIndex(keys, idx) ==
    LET num(i) == DigitsValue(RerunNumberText(keys[i]))
        top == SetMax({ num(i) : i \in idx })
    IN  SetMin({ i \in idx : num(i) = top })

\* the fallback loop: first key holding "{base}.json" and no "_rerun_"
BaseIndexes(keys, base_filename) ==
    { i \in 1..Len(keys) :
        /\ Contains(keys[i], base_filename \o <<JSON>>)
        /\ ~Contains(keys[i], <<RERUN>>) }

select_latest_rerun_no_fallback(keys, base_filename) ==
    LET idx == RerunIndexes(keys, base_filename)
    IN  IF \E i \in idx : ~IntParses(RerunNumberText(keys[i]))
        THEN RaisedValueError
        ELSE IF idx # {} THEN SomeKey(keys[MaxRerunIndex(keys, idx)])
        ELSE NoKey

select_latest_rerun(keys, base_filename) ==
    LET idx == RerunIndexes(keys, base_filename)
        bases == BaseIndexes(keys, base_filename)
    IN  IF \E i \in idx : ~IntParses(RerunNumberText(keys[i]))
        THEN RaisedValueError
        ELSE IF idx # {} THEN SomeKey(keys[MaxRerunIndex(keys, idx)])
        ELSE IF bases # {} THEN SomeKey(keys[SetMin(bases)])
        ELSE NoKey

-----------------------------------------------------------------------------
(* models: rerun attempt, StatusEnum, StepOutput *)

\* rerun_attempt is None
NoneAttempt == -1

SUCCESS == "SUCCESS"
FAILED == "FAILED"
NOT_DEFINED == "NOT_DEFINED"

\* Python None where a record or a token sequence is expected
None == [kind |-> "None"]

StepOutput(output, step_status, step_failure_message) ==
    [output |-> output, step_status |-> step_status,
     step_failure_message |-> step_failure_message]

-----------------------------------------------------------------------------
(* utils/bucket_helper.py: get_s3_key_prefix *)

Fmt02_unpadded(n) == StrOfNat(n)

\* f"{n:02}"
Fmt02(n) == IF n < 10 THEN <<"0", DigitTok(n)>> ELSE StrOfNat(n)

\* f"{n:03d}"
Fmt03(n) ==
    IF n < 10 THEN <<"0", "0", DigitTok(n)>>
    ELSE IF n < 100 THEN <<"0">> \o StrOfNat(n)
    ELSE StrOfNat(n)

StrResult(v) == [kind |-> "str", val |-> v]
RaisedAttributeError == [kind |-> "AttributeError", val |-> <<>>]
NoneResult == [kind |-> "None", val |-> <<>>]

\* rerun_attempt is truthy: neither None nor 0
Truthy(rerun_attempt) == rerun_attempt # NoneAttempt /\ rerun_attempt # 0

\* date_str is the UTC date the call is made on; step and step_config are
\* records or None; target_folder is a token or "" for None
get_s3_key_prefix(date_str, request_id, file_record, step, step_config, rerun_attempt, is_master_data, target_folder, is_full_prefix, version_folder) ==
    LET step_order == IF step # None THEN Fmt02(step.stepOrder) ELSE <<>>
        file_name == file_record.file_name
        file_name_wo_ext == file_record.file_name_wo_ext
        prefix_part ==
            IF is_master_data THEN file_name_wo_ext
            ELSE file_record.folder_name \o <<SLASH>>
                     \o file_record.customer_foldername
        object_name ==
            IF Truthy(rerun_attempt)
            THEN file_name_wo_ext \o <<RERUN>> \o StrOfNat(rerun_attempt)
                     \o <<JSON>>
            ELSE file_name_wo_ext \o <<JSON>>
        step_prefix ==
            <<step_config.target_store_data, SLASH>> \o prefix_part
                \o <<SLASH, date_str, SLASH, request_id, SLASH>>
                \o step_order \o <<"_", step.stepName, SLASH>>
    IN  IF target_folder = "" /\ is_full_prefix
        THEN IF step = None \/ step_config = None THEN RaisedAttributeError
             ELSE StrResult(step_prefix \o object_name)
        ELSE IF target_folder = "" /\ ~is_full_prefix
        THEN IF step = None \/ step_config = None THEN RaisedAttributeError
             ELSE StrResult(step_prefix)
        ELSE IF is_master_data /\ target_folder = "master_data"
        THEN StrResult(<<target_folder, SLASH>> \o file_name_wo_ext
                           \o <<SLASH>> \o file_name)
        ELSE IF is_master_data /\ target_folder = "process_data"
        THEN StrResult(<<target_folder, SLASH>> \o file_name_wo_ext
                           \o <<SLASH>> \o file_name_wo_ext
                           \o <<"_", file_record.proceed_at, JSON>>)
        ELSE IF is_master_data /\ target_folder = "versioning"
        THEN StrResult(<<target_folder, SLASH>> \o file_name_wo_ext
                           \o <<SLASH>> \o version_folder
                           \o <<SLASH>> \o file_name)
        ELSE NoneResult

-----------------------------------------------------------------------------
(* utils/read_n_write_s3.py: the gateway over one bucket's objects.         *)
(* objs is the set of objects of the bucket, cache the bucket names in      *)
(* _s3_connectors; conn and op say whether constructing the connector and   *)
(* the storage call succeed.                                                *)

\* ascending byte order of the first character of each token
TokenOrder ==
    << ".csv", JSON, SLASH, "0", "1", "2", "3", "4", "5", "6", "7", "8", "9",
       "EXTRACT", "None", "PARSE", "UNBOUND", "UNKNOWN_STEP", "WRITE",
       "_", RERUN, "a", "b", "f", "master_data", "p", "req", "target",
       "today", "versioning", "x" >>

TokRank(t) ==
    IF \E i \in 1..Len(TokenOrder) : TokenOrder[i] = t
    THEN CHOOSE i \in 1..Len(TokenOrder) : TokenOrder[i] = t
    ELSE 0

RECURSIVE LexLess(_, _)
LexLess(a, b) ==
    IF a = <<>> THEN b # <<>>
    ELSE IF b = <<>> THEN FALSE
    ELSE IF a[1] = b[1] THEN LexLess(Tail(a), Tail(b))
    ELSE TokRank(a[1]) < TokRank(b[1])

RECURSIVE SortedKeys(_)
\* the keys of K in the order list_objects_v2 returns them
SortedKeys(K) ==
    IF K = {} THEN <<>>
    ELSE LET m == CHOOSE k \in K : \A o \in K \ {k} : LexLess(k, o)
         IN  <<m>> \o SortedKeys(K \ {m})

CacheWith_replacing(cache, bucket_name) == {bucket_name}

\* the cache after "if bucket_name not in _s3_connectors: ..." succeeded
CacheWith(cache, bucket_name) == cache \cup {bucket_name}

\* the connector is usable: cached, or constructed without error
Connected(cache, bucket_name, conn) == bucket_name \in cache \/ conn

list_objects_with_prefix_unguarded(objs, cache, bucket_name, prefix, conn, op) ==
    IF ~Connected(cache, bucket_name, conn)
    THEN [raised |-> TRUE, keys |-> <<>>, cache |-> cache]
    ELSE [raised |-> FALSE,
          keys |-> IF op
                   THEN SortedKeys({ o.key : o \in { x \in objs :
                                       StartsWith(x.key, prefix) } })
                   ELSE <<>>,
          cache |-> CacheWith(cache, bucket_name)]

\* the whole body is inside "try: ... except Exception: return []": raised is
\* FALSE whatever fails
list_objects_with_prefix(objs, cache, bucket_name, prefix, conn, op) ==
    IF Connected(cache, bucket_name, conn) /\ op
    THEN [raised |-> FALSE,
          keys |-> SortedKeys({ o.key : o \in { x \in objs :
                                     StartsWith(x.key, prefix) } }),
          cache |-> CacheWith(cache, bucket_name)]
    ELSE [raised |-> FALSE, keys |-> <<>>,
          cache |-> IF Connected(cache, bucket_name, conn)
                    THEN CacheWith(cache, bucket_name) ELSE cache]

\* the exceptions a call of the storage client raises; "" is none
StorageErrors == {"", "ClientError", "BotoCoreError"}

\* get_object(client, ...): exc is what client.get_object or the read of the
\* body raises; a missing object is a ClientError (NoSuchKey)
get_object(objs, object_name, exc) ==
    LET found == { o \in objs : o.key = object_name }
        raises == IF exc = "" /\ found = {} THEN "ClientError" ELSE exc
    IN  IF raises = ""
        THEN [raised |-> FALSE, buffer |-> (CHOOSE o \in found : TRUE).payload]
        ELSE IF raises \in {"ClientError", "BotoCoreError"}
        THEN [raised |-> FALSE, buffer |-> None]
        ELSE [raised |-> TRUE, buffer |-> None]

\* object_name is a select_latest_rerun result; a None key makes get_object
\* fail its parameter validation, which get_object turns into None
read_json_from_s3(objs, cache, bucket_name, object_name, conn, op) ==
    LET found == { o \in objs : object_name.kind = "key"
                                  /\ o.key = object_name.key }
    IN  IF Connected(cache, bucket_name, conn) /\ op /\ found # {}
        THEN [raised |-> FALSE,
              data |-> (CHOOSE o \in found : TRUE).payload,
              cache |-> CacheWith(cache, bucket_name)]
        ELSE [raised |-> FALSE, data |-> None,
              cache |-> IF Connected(cache, bucket_name, conn)
                        THEN CacheWith(cache, bucket_name) ELSE cache]

\* the payload json.dumps receives: the output of an envelope that has one,
\* else the whole value
JsonPayload(json_data) ==
    IF "output" \in DOMAIN json_data /\ json_data.output # None
    THEN json_data.output
    ELSE json_data

PutObject(objs, key, payload) ==
    { o \in objs : o.key # key } \cup { [key |-> key, payload |-> payload] }

UploadError == "upload error"
ConnectError == "connect error"

write_json_to_s3_unchecked(objs, cache, json_data, bucket_name, s3_key_prefix, conn, op) ==
    IF ~Connected(cache, bucket_name, conn)
    THEN [raised |-> TRUE, result |-> None, objs |-> objs, cache |-> cache]
    ELSE [raised |-> FALSE,
          result |-> [status |-> "Success", error |-> "",
                      s3_key_prefix |-> s3_key_prefix],
          objs |-> IF op
                   THEN PutObject(objs, s3_key_prefix, JsonPayload(json_data))
                   ELSE objs,
          cache |-> CacheWith(cache, bucket_name)]

\* raised is TRUE when constructing the connector raised (outside the try)
write_json_to_s3(objs, cache, json_data, bucket_name, s3_key_prefix, conn, op) ==
    IF ~Connected(cache, bucket_name, conn)
    THEN [raised |-> TRUE, result |-> None, objs |-> objs, cache |-> cache]
    ELSE IF op
    THEN [raised |-> FALSE,
          result |-> [status |-> "Success", error |-> "",
                      s3_key_prefix |-> s3_key_prefix],
          objs |-> PutObject(objs, s3_key_prefix, JsonPayload(json_data)),
          cache |-> CacheWith(cache, bucket_name)]
    ELSE [raised |-> FALSE,
          result |-> [status |-> "Failed", error |-> UploadError,
                      s3_key_prefix |-> s3_key_prefix],
          objs |-> objs,
          cache |-> CacheWith(cache, bucket_name)]

-----------------------------------------------------------------------------
(* processors/workflow_processors/write_json_to_s3.py *)

\* the step: every exception of the gateway call becomes FAILED, every
\* returned result becomes SUCCESS
step_write_json_to_s3(objs, cache, file_record, input_data, s3_key_prefix, conn, op) ==
    LET w == write_json_to_s3(objs, cache, input_data,
                              file_record.target_bucket_name, s3_key_prefix,
                              conn, op)
    IN  IF w.raised
        THEN [out |-> StepOutput(None, FAILED, <<<<ConnectError>>>>),
              objs |-> w.objs, cache |-> w.cache, wrote |-> FALSE]
        ELSE [out |-> StepOutput(w.result, SUCCESS, <<>>),
              objs |-> w.objs, cache |-> w.cache,
              wrote |-> w.result.status = "Success"]

\* data.update(json_output=key)
WithJsonOutput(data, key) ==
    [f \in DOMAIN data \cup {"json_output"} |->
        IF f = "json_output" THEN key ELSE data[f]]

\* processors/helpers/template_helper.py: the document model rebuilt from
\* the decoded fields
parse_data(data) == data

\* rerun_attempt - 1 when rerun_attempt > 1, else None
PriorAttempt(rerun_attempt) ==
    IF rerun_attempt # NoneAttempt /\ rerun_attempt > 1
    THEN rerun_attempt - 1 ELSE NoneAttempt

get_step_result_from_s3_skipping(objs, cache, date_str, tracking_model, file_record, step, step_config, lconn, lop, rconn, rop) ==
    LET s3_key_prefix ==
            get_s3_key_prefix(date_str, tracking_model.request_id, file_record,
                              step, step_config,
                              PriorAttempt(tracking_model.rerun_attempt),
                              tracking_model.sap_masterdata, "", FALSE, <<>>)
        l == list_objects_with_prefix(objs, cache,
                 file_record.target_bucket_name, s3_key_prefix.val, lconn, lop)
        key == select_latest_rerun(l.keys, file_record.file_name_wo_ext)
        r == read_json_from_s3(objs, l.cache, file_record.target_bucket_name,
                               key, rconn, rop)
    IN  IF s3_key_prefix.kind # "str"
        THEN [kind |-> s3_key_prefix.kind, data |-> None, key |-> NoKey,
              cache |-> cache]
        ELSE IF key.kind = "ValueError"
        THEN [kind |-> "ValueError", data |-> None, key |-> NoKey,
              cache |-> l.cache]
        ELSE IF r.data = None \/ "step_status" \notin DOMAIN r.data
                  \/ r.data["step_status"] # "1"
        THEN [kind |-> "None", data |-> None, key |-> key, cache |-> r.cache]
        ELSE [kind |-> "data", data |-> parse_data(WithJsonOutput(r.data, key.key)),
              key |-> key, cache |-> r.cache]

\* kind is "data" (a decoded result), "None" or the exception raised
get_step_result_from_s3(objs, cache, date_str, tracking_model, file_record, step, step_config, lconn, lop, rconn, rop) ==
    LET s3_key_prefix ==
            get_s3_key_prefix(date_str, tracking_model.request_id, file_record,
                              step, step_config,
                              PriorAttempt(tracking_model.rerun_attempt),
                              tracking_model.sap_masterdata, "", FALSE, <<>>)
        l == list_objects_with_prefix(objs, cache,
                 file_record.target_bucket_name, s3_key_prefix.val, lconn, lop)
        key == select_latest_rerun(l.keys, file_record.file_name_wo_ext)
        r == read_json_from_s3(objs, l.cache, file_record.target_bucket_name,
                               key, rconn, rop)
    IN  IF s3_key_prefix.kind # "str"
        THEN [kind |-> s3_key_prefix.kind, data |-> None, key |-> NoKey,
              cache |-> cache]
        ELSE IF key.kind = "ValueError"
        THEN [kind |-> "ValueError", data |-> None, key |-> NoKey,
              cache |-> l.cache]
        ELSE IF r.data = None
        THEN [kind |-> "None", data |-> None, key |-> key, cache |-> r.cache]
        ELSE [kind |-> "data", data |-> parse_data(WithJsonOutput(r.data, key.key)),
              key |-> key, cache |-> r.cache]

-----------------------------------------------------------------------------
(* celery_worker/step_handler.py: the step registry and execute_step *)

StepDefinition(function_name, require_data_output, target_store_data, data_output) ==
    [function_name |-> function_name,
     require_data_output |-> require_data_output,
     target_store_data |-> target_store_data,
     data_output |-> data_output]

RegisteredSteps == {"EXTRACT", "PARSE", "WRITE", "UNBOUND"}

PROCESS_DEFINITIONS ==
    [n \in RegisteredSteps |->
        CASE n = "EXTRACT" ->
                 StepDefinition("extract_metadata", FALSE, "target", "")
          [] n = "PARSE" ->
                 StepDefinition("parse_file_to_json", TRUE, "target", "parsed")
          [] n = "WRITE" ->
                 StepDefinition("write_json_to_s3", FALSE, "target", "")
          [] n = "UNBOUND" ->
                 StepDefinition("send_to_unbound", TRUE, "target", "")]

\* the functions bound to a callable on the processor; every other attribute
\* is None
BoundFunctions == {"extract_metadata", "parse_file_to_json", "write_json_to_s3"}

NotYetDefined == "not yet defined"
StepError == "step error"
BoomError == "Boom"

WorkflowStep(stepName, stepOrder) ==
    [stepName |-> stepName, stepOrder |-> stepOrder]

\* what a registered callable other than write_json_to_s3 computes for the
\* attempt: a parsed document carrying its own step_status
ComputedOutput(rerun_attempt) == [step_status |-> "1", by |-> rerun_attempt]

\* the record of one execute_step call: kind is "return" or "raise", result
\* the StepOutput returned or the exception raised, call what the callable did
Executed(step, kind, result, hit, call, key, wrote, writeFailed, objs, cache, ctx) ==
    [step |-> step, kind |-> kind, result |-> result, hit |-> hit,
     call |-> call, key |-> key, wrote |-> wrote,
     writeFailed |-> writeFailed, objs |-> objs, cache |-> cache,
     context |-> ctx]

Exception(name) == [exception |-> name]

NotDefinedOutput_as_failed(step) ==
    StepOutput(None, FAILED, <<<<step.stepName, NotYetDefined>>>>)

NotDefinedOutput(step) ==
    StepOutput(None, NOT_DEFINED, <<<<step.stepName, NotYetDefined>>>>)

CallableRaised_swallowed(step, objs, cache, ctx) ==
    Executed(step, "return", StepOutput(None, FAILED, <<<<BoomError>>>>),
             FALSE, "raise", <<>>, FALSE, FALSE, objs, cache, ctx)

\* the callable raised: the exception leaves execute_step as it is
CallableRaised(step, objs, cache, ctx) ==
    Executed(step, "raise", Exception(BoomError), FALSE, "raise", <<>>,
             FALSE, FALSE, objs, cache, ctx)

\* env: the outcomes of the calls the step makes. lconn/lop, rconn/rop and
\* wconn/wop are the connector construction and the storage call of the
\* listing, the read and the write; call is what the callable does.
execute_step(objs, cache, date_str, tracking_model, file_record, ctx, step, env) ==
    LET registered == step.stepName \in RegisteredSteps
        step_config == PROCESS_DEFINITIONS[step.stepName]
        prior == get_step_result_from_s3(objs, cache, date_str,
                     tracking_model, file_record, step, step_config,
                     env.lconn, env.lop, env.rconn, env.rop)
        cache1 == IF step_config.require_data_output THEN prior.cache
                  ELSE cache
        full_key == get_s3_key_prefix(date_str, tracking_model.request_id,
                        file_record, step, step_config,
                        tracking_model.rerun_attempt,
                        tracking_model.sap_masterdata, "", TRUE, <<>>)
        \* the step whose callable is the write_json_to_s3 processor
        w == step_write_json_to_s3(objs, cache1, file_record, ctx.parsed,
                                   full_key.val, env.wconn, env.wop)
        computed == StepOutput(ComputedOutput(tracking_model.rerun_attempt),
                               SUCCESS, <<>>)
        \* persistence of a computed output
        p == write_json_to_s3(objs, cache1, computed,
                              file_record.target_bucket_name, full_key.val,
                              env.wconn, env.wop)
        bind(o) == IF step_config.data_output = "parsed"
                   THEN [ctx EXCEPT !.parsed = o] ELSE ctx
    IN  IF ~registered
        THEN Executed(step, "return", NotDefinedOutput(step),
                 FALSE, "none", <<>>, FALSE, FALSE, objs, cache, ctx)
        ELSE IF step_config.function_name \notin BoundFunctions
        THEN Executed(step, "return", NotDefinedOutput(step),
                 FALSE, "none", <<>>, FALSE, FALSE, objs, cache, ctx)
        ELSE IF step_config.require_data_output
                  /\ prior.kind \notin {"data", "None"}
        THEN Executed(step, "raise", Exception(prior.kind), FALSE, "none",
                      <<>>, FALSE, FALSE, objs, cache1, ctx)
        ELSE IF step_config.require_data_output /\ prior.kind = "data"
        THEN Executed(step, "return", StepOutput(prior.data, SUCCESS, <<>>),
                      TRUE, "none", prior.key.key, FALSE, FALSE, objs, cache1,
                      bind(prior.data))
        ELSE IF step_config.function_name = "write_json_to_s3"
        THEN Executed(step, "return", w.out, FALSE, "success", full_key.val,
                      w.wrote, ~w.wrote, w.objs, w.cache, ctx)
        ELSE IF env.call = "raise"
        THEN CallableRaised(step, objs, cache1, ctx)
        ELSE IF env.call = "failed"
        THEN Executed(step, "return",
                 StepOutput(None, FAILED, <<<<StepError>>>>),
                 FALSE, "failed", <<>>, FALSE, FALSE, objs, cache1, ctx)
        ELSE IF ~step_config.require_data_output
        THEN Executed(step, "return", computed, FALSE, "success", <<>>,
                      FALSE, FALSE, objs, cache1, bind(computed.output))
        ELSE IF p.raised
        THEN Executed(step, "return",
                 StepOutput(None, FAILED, <<<<ConnectError>>>>),
                 FALSE, "success", full_key.val, FALSE, TRUE, objs, p.cache,
                 ctx)
        ELSE IF p.result.status = "Failed"
        THEN Executed(step, "return",
                 StepOutput(None, FAILED, <<<<p.result.error>>>>),
                 FALSE, "success", full_key.val, FALSE, TRUE, objs, p.cache,
                 ctx)
        ELSE Executed(step, "return", computed, FALSE, "success",
                      full_key.val, TRUE, FALSE, p.objs, p.cache,
                      bind(computed.output))

-----------------------------------------------------------------------------
(* celery_worker/celery_task.py: handle_task, the workflow runner *)

MaxRuns == 3
MaxAttempt == 2

RerunAttempts == {NoneAttempt} \cup 0..MaxAttempt

\* the file record extract_metadata left on the processor
FileRecord ==
    [file_name |-> <<"f", ".csv">>, file_name_wo_ext |-> <<"f">>,
     folder_name |-> <<"p">>, customer_foldername |-> <<"x">>,
     proceed_at |-> "today", target_bucket_name |-> "target-bucket",
     raw_bucket_name |-> "raw-bucket", file_path |-> <<"p", SLASH, "f", ".csv">>]

\* the UTC date of the request and of its reruns
DateStr == "today"

\* workflowSteps as the backend returns them
Workflows ==
    { << WorkflowStep("EXTRACT", 0), WorkflowStep("PARSE", 1),
         WorkflowStep("WRITE", 2) >>,
      << WorkflowStep("PARSE", 1), WorkflowStep("UNKNOWN_STEP", 2),
         WorkflowStep("WRITE", 3) >>,
      << WorkflowStep("WRITE", 2), WorkflowStep("UNBOUND", 1),
         WorkflowStep("EXTRACT", 0) >> }

RECURSIVE SortByOrder(_)
\* the steps in ascending stepOrder
SortByOrder(steps) ==
    IF steps = {} THEN <<>>
    ELSE LET m == CHOOSE x \in steps :
                      \A y \in steps : x.stepOrder <= y.stepOrder
         IN  <<m>> \o SortByOrder(steps \ {m})

OrderedSteps(wf) == SortByOrder({ wf[i] : i \in 1..Len(wf) })

Outcomes ==
    [lconn : BOOLEAN, lop : BOOLEAN, rconn : BOOLEAN, rop : BOOLEAN,
     wconn : BOOLEAN, wop : BOOLEAN, call : {"success", "failed", "raise"}]

\* the outcomes the step can observe: a step that makes no storage call or
\* calls no callable sees one outcome, a cached connector is never rebuilt
OutcomesFor(cache, file_record, step) ==
    LET known == step.stepName \in RegisteredSteps
                   /\ PROCESS_DEFINITIONS[step.stepName].function_name
                          \in BoundFunctions
        def == PROCESS_DEFINITIONS[step.stepName]
        writes == known /\ def.function_name = "write_json_to_s3"
        looks == known /\ def.require_data_output
        cached == file_record.target_bucket_name \in cache
        conns(used) == IF used /\ ~cached THEN BOOLEAN ELSE {TRUE}
        ops(used) == IF used THEN BOOLEAN ELSE {TRUE}
    IN  { env \in Outcomes :
            /\ env.lconn \in conns(looks) /\ env.lop \in ops(looks)
            /\ env.rconn \in conns(looks) /\ env.rop \in ops(looks)
            /\ env.wconn \in conns(looks \/ writes)
            /\ env.wop \in ops(looks \/ writes)
            /\ env.call \in IF known /\ ~writes
                             THEN {"success", "failed", "raise"}
                             ELSE {"success"} }

raise_if_failed_only_failed(result) == result.step_status = FAILED

\* the runner's abort policy: a FAILED or NOT_DEFINED step ends the workflow
raise_if_failed(result) == result.step_status \in {FAILED, NOT_DEFINED}

NoFailure == [stepName |-> "", message |-> <<>>]

EmptyContext == [parsed |-> None]

WfInit ==
    /\ store = {}
    /\ connectors = {}
    /\ \E m \in BOOLEAN :
           tracking = [request_id |-> "req", rerun_attempt |-> NoneAttempt,
                       sap_masterdata |-> m]
    /\ workflow = <<>>
    /\ stepIdx = 0
    /\ runState = "NOT_STARTED"
    /\ runs = 0
    /\ context = EmptyContext
    /\ trace = <<>>
    /\ failure = NoFailure

\* a request (the original run or a rerun of it) arrives
StartRun ==
    /\ runState # "RUNNING"
    /\ runs < MaxRuns
    /\ \E a \in RerunAttempts, wf \in Workflows :
        /\ tracking' = [tracking EXCEPT !.rerun_attempt = a]
        /\ workflow' = wf
    /\ stepIdx' = 1
    /\ runState' = "RUNNING"
    /\ runs' = runs + 1
    /\ context' = EmptyContext
    /\ trace' = <<>>
    /\ failure' = NoFailure
    /\ UNCHANGED <<store, connectors>>
    /\ UNCHANGED <<selVars, rawVars, resolverVars, callVars, wkVars>>

\* what the trace keeps of one execute_step call: the call, the objects
\* stored when it began, whether the step is one that consults the result
\* cache and whether its listing and its read were in a position to succeed
TraceEntry(e, before, cache, env) ==
    LET looked == e.step.stepName \in RegisteredSteps
                    /\ PROCESS_DEFINITIONS[e.step.stepName].function_name
                           \in BoundFunctions
                    /\ PROCESS_DEFINITIONS[e.step.stepName].require_data_output
        linked == Connected(cache, FileRecord.target_bucket_name, env.lconn)
    IN  [step |-> e.step, kind |-> e.kind, result |-> e.result, hit |-> e.hit,
         call |-> e.call, key |-> e.key, wrote |-> e.wrote,
         writeFailed |-> e.writeFailed, before |-> before, looked |-> looked,
         listed |-> looked /\ linked /\ env.lop,
         readable |-> looked /\ (linked \/ env.rconn) /\ env.rop]

\* the step the runner executes next: the stepIdx-th in ascending stepOrder
NextStep == OrderedSteps(workflow)[stepIdx]

\* one iteration of the runner's loop: execute the next step, apply the policy
RunStep ==
    /\ runState = "RUNNING"
    /\ stepIdx <= Len(workflow)
    /\ \E env \in OutcomesFor(connectors, FileRecord, NextStep) :
        \E e \in { execute_step(store, connectors, DateStr, tracking,
                                FileRecord, context, NextStep, env) } :
            /\ store' = e.objs
            /\ connectors' = e.cache
            /\ context' = e.context
            /\ trace' = Append(trace, TraceEntry(e, store, connectors, env))
            /\ IF e.kind = "raise"
               THEN /\ runState' = "RAISED"
                    /\ UNCHANGED <<stepIdx, failure>>
               ELSE IF raise_if_failed(e.result)
               THEN /\ runState' = "FAILED"
                    /\ failure' = [stepName |-> e.step.stepName,
                                   message |-> e.result.step_failure_message[1]]
                    /\ UNCHANGED stepIdx
               ELSE /\ stepIdx' = stepIdx + 1
                    /\ UNCHANGED <<runState, failure>>
    /\ UNCHANGED <<tracking, workflow, runs>>
    /\ UNCHANGED <<selVars, rawVars, resolverVars, callVars, wkVars>>

\* every step returned SUCCESS: the runner finalizes
Finish ==
    /\ runState = "RUNNING"
    /\ stepIdx > Len(workflow)
    /\ runState' = "COMPLETED"
    /\ UNCHANGED <<store, connectors, tracking, workflow, stepIdx, runs,
                   context, trace, failure>>
    /\ UNCHANGED <<selVars, rawVars, resolverVars, callVars, wkVars>>

\* the variables of the selection are idle while a workflow runs
SelIdle ==
    /\ selKeys = <<>>
    /\ selBase = <<>>
    /\ selResult = NoKey
    /\ selPc = "idle"

\* no write_raw_to_s3 execution is under way
RawIdle ==
    /\ rawRuns = 0
    /\ rawLast = None

Init == WfInit /\ SelIdle /\ RawIdle /\ ResolverIdle /\ CallIdle /\ WkIdle

Next == StartRun \/ RunStep \/ Finish

Spec == Init /\ [][Next]_vars

-----------------------------------------------------------------------------
(* processors/workflow_processors/write_raw_to_s3.py *)

\* outcome is "Success", "Failed" (a storage error, returned as a result) or
\* "raise" (any other exception, which the function does not catch); a None
\* destination key fails the parameter validation of copy_object
copy_object_between_buckets(objs, source_key, dest_key, outcome) ==
    IF outcome = "raise"
    THEN [raised |-> TRUE, status |-> "", objs |-> objs]
    ELSE IF outcome = "Failed" \/ dest_key.kind # "str"
    THEN [raised |-> FALSE, status |-> "Failed", objs |-> objs]
    ELSE [raised |-> FALSE, status |-> "Success",
          objs |-> PutObject(objs, dest_key.val, [source |-> source_key])]

\* re.search(rf"versioning/{stem}/(\d{3})/", key): the positions of key at
\* which the pattern matches
VersionMatches(key, stem) ==
    LET head == <<"versioning", SLASH>> \o stem \o <<SLASH>>
        n == Len(head)
    IN  { i \in 1..Len(key) :
            /\ i + n + 3 <= Len(key)
            /\ SubSeq(key, i, i + n - 1) = head
            /\ \A d \in 0..2 : key[i + n + d] \in Digits
            /\ key[i + n + 3] = SLASH }

\* int(match.group(1)) of the leftmost match
MatchedVersion(key, stem) ==
    LET i == SetMin(VersionMatches(key, stem))
        n == Len(stem) + 3
    IN  DigitsValue(SubSeq(key, i + n, i + n + 2))

\* version_number as computed from the listed keys
NextVersionNumber(existing_keys, stem) ==
    LET numbers == { MatchedVersion(existing_keys[i], stem) :
                       i \in { j \in 1..Len(existing_keys) :
                                 VersionMatches(existing_keys[j], stem) # {} } }
    IN  IF existing_keys # <<>> /\ numbers # {} THEN SetMax(numbers) + 1
        ELSE 1

\* env: copy1 and copy2 are the outcomes of the two copies, lconn/lop those of
\* the connector construction and the storage call of the listing
write_raw_to_s3(objs, cache, date_str, tracking_model, file_record, env) ==
    LET s3_key_prefix ==
            get_s3_key_prefix(date_str, tracking_model.request_id, file_record,
                              None, None, tracking_model.rerun_attempt,
                              tracking_model.sap_masterdata, "master_data",
                              TRUE, <<>>)
        result == copy_object_between_buckets(objs, file_record.file_path,
                                              s3_key_prefix, env.copy1)
        version_prefix == <<"versioning", SLASH>>
                              \o file_record.file_name_wo_ext \o <<SLASH>>
        l == list_objects_with_prefix(result.objs, cache,
                 file_record.target_bucket_name, version_prefix,
                 env.lconn, env.lop)
        version_number == NextVersionNumber(l.keys,
                                            file_record.file_name_wo_ext)
        version_key == version_prefix \o Fmt03(version_number) \o <<SLASH>>
                           \o file_record.file_name
        versioned == copy_object_between_buckets(result.objs,
                         file_record.file_path, StrResult(version_key),
                         env.copy2)
    IN  IF result.raised
        THEN [out |-> StepOutput(None, FAILED, <<<<"Exception in write_raw_to_s3">>>>),
              objs |-> objs, cache |-> cache, assigned |-> FALSE,
              version_number |-> 0, version_key |-> <<>>,
              flat |-> "raise", versioned |-> "none"]
        ELSE IF versioned.raised
        THEN [out |-> StepOutput(None, FAILED, <<<<"Exception in write_raw_to_s3">>>>),
              objs |-> result.objs, cache |-> l.cache, assigned |-> TRUE,
              version_number |-> version_number, version_key |-> version_key,
              flat |-> result.status, versioned |-> "raise"]
        ELSE [out |-> StepOutput([status |-> result.status], SUCCESS, <<>>),
              objs |-> versioned.objs, cache |-> l.cache, assigned |-> TRUE,
              version_number |-> version_number, version_key |-> version_key,
              flat |-> result.status, versioned |-> versioned.status]

-----------------------------------------------------------------------------
(* Executions of write_raw_to_s3, one after the other, on master-data files *)

MaxRawRuns == 4

RawStems == {"a", "b"}

RawFileRecord(stem) ==
    [file_name |-> <<stem, ".csv">>, file_name_wo_ext |-> <<stem>>,
     folder_name |-> <<"p">>, customer_foldername |-> <<"x">>,
     proceed_at |-> "today", target_bucket_name |-> "target-bucket",
     raw_bucket_name |-> "raw-bucket",
     file_path |-> <<"master_data", SLASH, stem, ".csv">>]

CopyOutcomes == {"Success", "Failed", "raise"}

RawOutcomes ==
    [copy1 : CopyOutcomes, lconn : BOOLEAN, lop : BOOLEAN,
     copy2 : CopyOutcomes]

RawInit ==
    /\ store = {}
    /\ connectors = {}
    /\ tracking = [request_id |-> "req", rerun_attempt |-> NoneAttempt,
                   sap_masterdata |-> TRUE]
    /\ workflow = <<>>
    /\ stepIdx = 0
    /\ runState = "NOT_STARTED"
    /\ runs = 0
    /\ context = EmptyContext
    /\ trace = <<>>
    /\ failure = NoFailure
    /\ rawRuns = 0
    /\ rawLast = None

\* a workflow run reaches its write_raw_to_s3 step and executes it. An outcome that no call observes is fixed: a
\* first copy that raises ends the step before the listing and the second
\* copy, and a cached connector is not constructed again.
WriteRaw ==
    /\ rawRuns < MaxRawRuns
    /\ \E stem \in RawStems, m \in BOOLEAN, env \in RawOutcomes :
        \E tm \in { [tracking EXCEPT !.sap_masterdata = m] } :
        \E r \in { write_raw_to_s3(store, connectors, DateStr, tm,
                                   RawFileRecord(stem), env) } :
            /\ (env.copy1 = "raise" =>
                   env.lconn /\ env.lop /\ env.copy2 = "Success")
            /\ (RawFileRecord(stem).target_bucket_name \in connectors
                   => env.lconn)
            /\ tracking' = tm
            /\ store' = r.objs
            /\ connectors' = r.cache
            /\ rawLast' = [stem |-> stem, before |-> store, out |-> r.out,
                           assigned |-> r.assigned,
                           version_number |-> r.version_number,
                           version_key |-> r.version_key,
                           flat |-> r.flat, versioned |-> r.versioned]
    /\ rawRuns' = rawRuns + 1
    /\ UNCHANGED <<workflow, stepIdx, runState, runs, context, trace, failure>>
    /\ UNCHANGED <<selVars, resolverVars, callVars, wkVars>>

RawNext == WriteRaw

InitRaw == RawInit /\ SelIdle /\ ResolverIdle /\ CallIdle /\ WkIdle

SpecRaw == InitRaw /\ [][RawNext]_vars

\* the version numbers stored for the stem: the folders NNN of the objects
\* versioning/{stem}/NNN/{file name}
StoredVersions(objs, stem) ==
    { DigitsValue(SubSeq(o.key, 4 + 1, 4 + 3)) :
        o \in { x \in objs :
                  /\ Len(x.key) = 10
                  /\ SubSeq(x.key, 1, 4) = <<"versioning", SLASH, stem, SLASH>>
                  /\ \A d \in 5..7 : x.key[d] \in Digits
                  /\ SubSeq(x.key, 8, 10) = <<SLASH, stem, ".csv">> } }

\* C9: the versioned copy goes to versioning/{fileStem}/{VVV}/{fileName} with
\* VVV the 3-digit zero-padded max(existing versions)+1, 001 when none exists.
C9_VersionedKeyIsMaxPlusOne ==
    (rawRuns > 0 /\ rawLast.assigned) =>
        LET existing == StoredVersions(rawLast.before, rawLast.stem)
            next == IF existing = {} THEN 1 ELSE SetMax(existing) + 1
        IN  /\ Len(Fmt03(next)) = 3
            /\ rawLast.version_key =
                   <<"versioning", SLASH, rawLast.stem, SLASH>> \o Fmt03(next)
                       \o <<SLASH, rawLast.stem, ".csv">>

\* C10: every execution is assigned a version number strictly greater than
\* every version already stored for the file stem.
C10_VersionNumberIsMonotonic ==
    (rawRuns > 0 /\ rawLast.assigned) =>
        \A v \in StoredVersions(rawLast.before, rawLast.stem) :
            rawLast.version_number > v

\* C18: when either copy of write_raw_to_s3 (the flat master_data copy or the
\* versioned copy) fails, the StepOutput is FAILED and captures the error
\* text; the step returns SUCCESS only if both copies succeeded.
C18_CopyFailureIsFailedStep ==
    rawRuns > 0 =>
        /\ (rawLast.flat # "Success" \/ rawLast.versioned # "Success") =>
               /\ rawLast.out.step_status = FAILED
               /\ rawLast.out.step_failure_message # <<>>
        /\ rawLast.out.step_status = SUCCESS =>
               (rawLast.flat = "Success" /\ rawLast.versioned = "Success")

-----------------------------------------------------------------------------
(* Inputs of the selection: key lists over a bounded universe *)

MaxKeys == 2

SelPrefixes == { <<>>, <<"x">>, <<"p", SLASH>> }
SelStems == { <<"a">>, <<"b">> }
SelSuffixes ==
    { <<JSON>>, <<RERUN, "1", JSON>>, <<RERUN, "2", JSON>>,
      <<RERUN, "1", "0", JSON>>, <<RERUN, "x", JSON>>, <<".csv">> }

SelKeyUniverse ==
    { p \o s \o x : p \in SelPrefixes, s \in SelStems, x \in SelSuffixes }

SelKeyLists == UNION { [1..n -> SelKeyUniverse] : n \in 0..MaxKeys }

SelInit ==
    /\ selKeys \in SelKeyLists
    /\ selBase \in SelStems
    /\ selResult = NoKey
    /\ selPc = "input"
    /\ WfInit
    /\ RawIdle
    /\ ResolverIdle
    /\ WkIdle
    /\ CallIdle

Select ==
    /\ selPc = "input"
    /\ selResult' = select_latest_rerun(selKeys, selBase)
    /\ selPc' = "selected"
    /\ UNCHANGED <<selKeys, selBase>>
    /\ UNCHANGED wfVars
    /\ UNCHANGED <<rawVars, resolverVars, callVars, wkVars>>

SelNext == Select

SpecSelect == SelInit /\ [][SelNext]_vars

-----------------------------------------------------------------------------
(* Properties of execute_step and of the runner *)

Entries == { trace[i] : i \in 1..Len(trace) }

\* the listing prefix of the step's stored results
StepPrefix(step) ==
    get_s3_key_prefix(DateStr, tracking.request_id, FileRecord, step,
                      PROCESS_DEFINITIONS[step.stepName], NoneAttempt,
                      tracking.sap_masterdata, "", FALSE, <<>>).val

\* the objects stored under the step's prefix when the call began
StoredFor(t) == { o \in t.before : StartsWith(o.key, StepPrefix(t.step)) }

\* the call is a rerun (attempt N > 1) of a persistable step and an earlier
\* attempt's result was stored under the step's prefix when it began
RerunWithEarlierResult(t) ==
    /\ t.looked
    /\ tracking.rerun_attempt > 1
    /\ \E o \in StoredFor(t) : o.payload.by < tracking.rerun_attempt

\* the call returned the decoded content of a stored object and did not
\* invoke the callable
ReusedStoredResult(t) ==
    /\ t.kind = "return"
    /\ t.hit
    /\ t.call = "none"
    /\ \E o \in StoredFor(t) :
          /\ o.key = t.key
          /\ t.result.output = WithJsonOutput(o.payload, o.key)

C2_ReusedResultIsOlder ==
    \A t \in Entries :
        (t.looked /\ tracking.rerun_attempt > 1 /\ t.hit)
            => t.result.output.by < tracking.rerun_attempt

\* the step has no registered definition, or its bound callable is None
Undefined(step) ==
    \/ step.stepName \notin RegisteredSteps
    \/ PROCESS_DEFINITIONS[step.stepName].function_name \notin BoundFunctions

\* C4: execute_step on an unregistered step, or one whose bound callable is
\* None, returns NOT_DEFINED with a first message holding the step name and
\* "not yet defined"; it never raises.
C4_UndefinedStepIsNotDefined ==
    \A t \in Entries :
        Undefined(t.step) =>
            /\ t.kind = "return"
            /\ t.call = "none"
            /\ t.result.step_status = NOT_DEFINED
            /\ Len(t.result.step_failure_message) >= 1
            /\ Contains(t.result.step_failure_message[1], <<t.step.stepName>>)
            /\ Contains(t.result.step_failure_message[1], <<NotYetDefined>>)

C4_Witness ==
    \E t \in Entries :
        /\ t.step.stepName \in RegisteredSteps
        /\ Undefined(t.step)
        /\ t.result.step_status = NOT_DEFINED

\* C5: a step whose computation succeeded and whose write to storage failed
\* returns FAILED, with the storage error among its messages and no output.
C5_FailedWriteIsFailedStep ==
    \A t \in Entries :
        (t.kind = "return" /\ t.call = "success" /\ t.writeFailed) =>
            /\ t.result.step_status = FAILED
            /\ t.result.output = None
            /\ \E i \in 1..Len(t.result.step_failure_message) :
                  \/ Contains(t.result.step_failure_message[i], <<UploadError>>)
                  \/ Contains(t.result.step_failure_message[i], <<ConnectError>>)

\* C6: an exception raised by the callable leaves execute_step as that same
\* exception; no StepOutput is returned.
C6_CallableExceptionPropagates ==
    \A t \in Entries :
        t.call = "raise" => (t.kind = "raise" /\ t.result = Exception(BoomError))

C6_Witness ==
    \E t \in Entries : t.call = "raise" /\ runState = "RAISED"

\* C7: a step that returned FAILED or NOT_DEFINED is the last step the run
\* executed; the workflow is FAILED and records that step's name and message.
C7_FailedStepAbortsWorkflow ==
    \A i \in 1..Len(trace) :
        (trace[i].kind = "return"
            /\ trace[i].result.step_status \in {FAILED, NOT_DEFINED}) =>
            /\ i = Len(trace)
            /\ runState = "FAILED"
            /\ failure.stepName = trace[i].step.stepName
            /\ failure.message = trace[i].result.step_failure_message[1]

C7_Witness ==
    /\ runState = "FAILED"
    /\ Len(trace) = 2
    /\ Len(workflow) = 3
    /\ trace[2].result.step_status = FAILED

\* the output the step returned is stored under the key the step names
Durable(t) ==
    \E o \in store :
        /\ o.key = t.key
        /\ WithJsonOutput(o.payload, o.key)
               = WithJsonOutput(t.result.output, o.key)

\* C8: the steps of a run are executed one at a time in ascending stepOrder,
\* and a step follows a persistable step only once that step's output is
\* stored (a failed step is followed by none).
C8_SequentialAndDurable ==
    /\ \A i \in 1..Len(trace) :
          /\ trace[i].step \in { workflow[k] : k \in 1..Len(workflow) }
          /\ Cardinality({ k \in 1..Len(workflow) :
                 workflow[k].stepOrder < trace[i].step.stepOrder }) = i - 1
    /\ stepIdx \in {Len(trace), Len(trace) + 1}
    /\ \A i \in 1..Len(trace) :
          (trace[i].looked /\ i < Len(trace)) =>
              /\ trace[i].kind = "return"
              /\ trace[i].result.step_status = SUCCESS
              /\ Durable(trace[i])

C8_Witness ==
    /\ Len(trace) = 3
    /\ trace[2].looked
    /\ trace[2].wrote
    /\ runState = "COMPLETED"

-----------------------------------------------------------------------------
(* Reference selection of the latest rerun *)

\* file name of a key: the text after the last "/"
KeyFileName(k) == SplitLast(k, SLASH)

\* the key names {base}_rerun_{N}.json
IsRerunForm(k, base) ==
    LET n == KeyFileName(k)
        pre == base \o <<RERUN>>
    IN  /\ StartsWith(n, pre)
        /\ Len(n) > Len(pre) + 1
        /\ n[Len(n)] = JSON
        /\ IntParses(SubSeq(n, Len(pre) + 1, Len(n) - 1))

RerunFormNumber(k, base) ==
    LET n == KeyFileName(k)
    IN  DigitsValue(SubSeq(n, Len(base) + 2, Len(n) - 1))

IsBaseForm(k, base) == KeyFileName(k) = base \o <<JSON>>

KeySet(keys) == { keys[i] : i \in 1..Len(keys) }

\* the results the reference selection allows
RefSelect(keys, base) ==
    LET R == { k \in KeySet(keys) : IsRerunForm(k, base) }
        B == { k \in KeySet(keys) : IsBaseForm(k, base) }
    IN  IF R # {}
        THEN { SomeKey(k) : k \in { r \in R : \A o \in R :
                   RerunFormNumber(o, base) <= RerunFormNumber(r, base) } }
        ELSE IF B # {} THEN { SomeKey(k) : k \in B }
        ELSE { NoKey }

\* C3: for every key list and base filename select_latest_rerun returns the
\* reference selection: the {base}_rerun_{N}.json key with maximal N, else the
\* {base}.json key, else nil.
C3_SelectEqualsReference ==
    selPc = "selected" => selResult \in RefSelect(selKeys, selBase)

-----------------------------------------------------------------------------
(* utils/bucket_helper.py: calls of get_s3_key_prefix over the days that a  *)
(* request and its reruns span                                              *)

MaxDay == 2

\* datetime.now(timezone.utc).strftime("%Y%m%d") on each day of the clock
UtcDates == <<"20261106", "20261107", "20261108", "20261109">>

UtcDate(day) == UtcDates[day]

KeySteps == {None, WorkflowStep("PARSE", 1), WorkflowStep("WRITE", 12)}

KeyStepConfigs == {None, PROCESS_DEFINITIONS["PARSE"]}

KeyTargetFolders ==
    {"", "master_data", "process_data", "versioning", "archive"}

KeyFileRecords == {FileRecord, RawFileRecord("a")}

\* the arguments of one call; target_folder "" stands for None
KeyInputs ==
    [request_id : {"req"}, file_record : KeyFileRecords, step : KeySteps,
     step_config : KeyStepConfigs, rerun_attempt : RerunAttempts,
     is_master_data : BOOLEAN, target_folder : KeyTargetFolders,
     is_full_prefix : BOOLEAN]

\* the call made with the arguments in on the given day
KeyCall(day, in) ==
    get_s3_key_prefix(UtcDate(day), in.request_id, in.file_record, in.step,
                      in.step_config, in.rerun_attempt, in.is_master_data,
                      in.target_folder, in.is_full_prefix, <<"0", "0", "1">>)

KeyInit ==
    /\ clock = 1
    /\ keyIn \in KeyInputs
    /\ keyOut = <<>>
    /\ keyAgain = <<>>
    /\ keyPc = "input"
    /\ BktIdle
    /\ WkIdle
    /\ WfInit
    /\ SelIdle
    /\ RawIdle
    /\ CallIdle

\* the first call
BuildKey ==
    /\ keyPc = "input"
    /\ keyOut' = [day |-> clock, key |-> KeyCall(clock, keyIn)]
    /\ keyPc' = "called"
    /\ UNCHANGED <<clock, keyIn, keyAgain>>
    /\ UNCHANGED <<selVars, wfVars, rawVars, bktVars, callVars, wkVars>>

\* the same call made later in the request's lifetime or in a rerun
BuildKeyAgain ==
    /\ keyPc = "called"
    /\ keyAgain' = [day |-> clock, key |-> KeyCall(clock, keyIn)]
    /\ keyPc' = "repeated"
    /\ UNCHANGED <<clock, keyIn, keyOut>>
    /\ UNCHANGED <<selVars, wfVars, rawVars, bktVars, callVars, wkVars>>

\* midnight UTC passes
Tick ==
    /\ keyPc # "idle"
    /\ clock < MaxDay
    /\ clock' = clock + 1
    /\ UNCHANGED <<keyIn, keyOut, keyAgain, keyPc>>
    /\ UNCHANGED <<selVars, wfVars, rawVars, bktVars, callVars, wkVars>>

KeyNext == BuildKey \/ BuildKeyAgain \/ Tick

SpecKey == KeyInit /\ [][KeyNext]_vars

KeyCalled == keyPc \in {"called", "repeated"}

\* the call addresses a step: no target folder, step and step config given
StepAddressed ==
    /\ KeyCalled
    /\ keyIn.target_folder = ""
    /\ keyIn.step # None
    /\ keyIn.step_config # None

\* C11: for a given (request id, file record, step, rerun attempt)
\* get_s3_key_prefix yields the same key on every call, whenever in the
\* request's lifetime or in a later rerun the call is made.
C11_KeyIsReproducible ==
    keyPc = "repeated" => keyAgain.key = keyOut.key

\* the object name of a mode-1 key: what follows its last "/"
KeyObjectName(key) == SplitLast(key, SLASH)

\* C12: in modes 1 and 2 the object name carries _rerun_{N} only for a rerun
\* attempt N greater than 1; for nil, 0 or 1 it is {fileStem}.json with no
\* rerun suffix.
C12_RerunSuffixOnlyAboveOne ==
    StepAddressed =>
        LET N == keyIn.rerun_attempt
            stem == keyIn.file_record.file_name_wo_ext
            key == keyOut.key.val
        IN  IF ~keyIn.is_full_prefix THEN ~Contains(key, <<RERUN>>)
            ELSE IF N # NoneAttempt /\ N > 1
            THEN KeyObjectName(key)
                     = stem \o <<RERUN>> \o StrOfNat(N) \o <<JSON>>
            ELSE KeyObjectName(key) = stem \o <<JSON>>

\* the part of a step prefix before the step order, as the addressing rule
\* states it
PrefixHead(in, day) ==
    <<in.step_config.target_store_data, SLASH>>
        \o (IF in.is_master_data THEN in.file_record.file_name_wo_ext
            ELSE in.file_record.folder_name \o <<SLASH>>
                     \o in.file_record.customer_foldername)
        \o <<SLASH, UtcDate(day), SLASH, in.request_id, SLASH>>

\* prefix has the stated shape: the head, the step order in two digits, "_",
\* the step name and "/"
HasPrefixShape(prefix, in, day) ==
    LET head == PrefixHead(in, day)
        order == SubSeq(prefix, Len(head) + 1, Len(head) + 2)
    IN  /\ Len(prefix) = Len(head) + 5
        /\ SubSeq(prefix, 1, Len(head)) = head
        /\ IntParses(order)
        /\ DigitsValue(order) = in.step.stepOrder
        /\ SubSeq(prefix, Len(head) + 3, Len(prefix))
               = <<"_", in.step.stepName, SLASH>>

\* C13: with no target folder the mode-1 key is the mode-2 prefix followed
\* by the object name, and the prefix is {targetFolder}/{prefixPart}/
\* {UTC date}/{requestId}/{2-digit stepOrder}_{stepName}/ with prefixPart the
\* file stem for master data and {folderName}/{customerFolderName} otherwise.
C13_FullKeyIsPrefixPlusObjectName ==
    StepAddressed =>
        LET mode1 == KeyCall(keyOut.day, [keyIn EXCEPT !.is_full_prefix = TRUE])
            mode2 == KeyCall(keyOut.day, [keyIn EXCEPT !.is_full_prefix = FALSE])
        IN  /\ keyOut.key = IF keyIn.is_full_prefix THEN mode1 ELSE mode2
            /\ mode1.kind = "str" /\ mode2.kind = "str"
            /\ HasPrefixShape(mode2.val, keyIn, keyOut.day)
            /\ StartsWith(mode1.val, mode2.val)
            /\ SubSeq(mode1.val, Len(mode2.val) + 1, Len(mode1.val))
                   = KeyObjectName(mode1.val)
            /\ StartsWith(KeyObjectName(mode1.val),
                          keyIn.file_record.file_name_wo_ext)
            /\ mode1.val[Len(mode1.val)] = JSON

C13_Witness ==
    /\ StepAddressed
    /\ keyIn.is_full_prefix
    /\ ~keyIn.is_master_data
    /\ keyIn.step.stepOrder < 10
    /\ keyOut.day = 2

-----------------------------------------------------------------------------
(* utils/bucket_helper.py: get_bucket_name. A dict is a function on its     *)
(* keys; BUCKET_MAP and the configuration are inputs of the call.           *)

ORDER == "order"
MASTER_DATA == "master_data"

\* no document type, no project name
NoneType == "None"

\* d.get(k) is truthy: k is a key of d (the values are non-empty)
Has(d, k) == k \in DOMAIN d

\* d.get(k) is a non-empty dict
HasDict(d, k) == k \in DOMAIN d /\ DOMAIN d[k] # {}

EmptyDict == <<>>

\* str.upper on the project names in use
Upper(name) ==
    CASE name = "dksh_tw" -> "DKSH_TW"
      [] name = "dksh_vn" -> "DKSH_VN"
      [] OTHER -> name

\* the mappings BUCKET_MAP may hold: complete, without the master-data
\* override, without a target role, with an empty raw role
BucketMaps ==
    { ("raw_bucket" :> ("DKSH_TW" :> "raw_tw" @@ "DKSH_VN" :> "raw_vn"))
        @@ ("target_bucket" :>
               ((ORDER :> ("DKSH_TW" :> "order_tw"))
                  @@ (MASTER_DATA :> ("DKSH_TW" :> "master_tw"
                                        @@ "sap_masterdata" :> "sap_master")))),
      ("raw_bucket" :> ("DKSH_TW" :> "raw_tw"))
        @@ ("target_bucket" :>
               ((ORDER :> ("DKSH_TW" :> "order_tw"
                             @@ "sap_masterdata" :> "sap_order"))
                  @@ (MASTER_DATA :> ("DKSH_TW" :> "master_tw")))),
      ("raw_bucket" :> ("DKSH_VN" :> "raw_vn")),
      ("raw_bucket" :> EmptyDict)
        @@ ("target_bucket" :> (MASTER_DATA :> ("sap_masterdata" :> "sap_master"))) }

\* config_loader.get_config_value("s3_buckets", bucket): the configured name
ConfigValue(bucket) == <<"s3", bucket>>

Returned(val) == [kind |-> "return", val |-> val, cause |-> ""]

Wrapped_unwrapped(cause) == [kind |-> cause, val |-> <<>>, cause |-> cause]

\* raise ValueError(f"Failed to resolve bucket name: {e}")
Wrapped(cause) == [kind |-> "ValueError", val |-> <<>>, cause |-> cause]

TargetKey_flag_only(document_type, project_name, sap_masterdata) ==
    IF sap_masterdata THEN "sap_masterdata" ELSE project_name

\* the key of a target-bucket lookup; project_name is upper-cased already
TargetKey(document_type, project_name, sap_masterdata) ==
    IF document_type = MASTER_DATA /\ sap_masterdata THEN "sap_masterdata"
    ELSE project_name

\* config_ok: get_config_value returns; otherwise it raises
get_bucket_name(bucket_map, config_ok, document_type, bucket_type, project_name, sap_masterdata) ==
    IF project_name = NoneType THEN Wrapped("AttributeError")
    ELSE IF ~HasDict(bucket_map, bucket_type) THEN Wrapped("KeyError")
    ELSE IF bucket_type = "raw_bucket"
    THEN IF ~Has(bucket_map[bucket_type], Upper(project_name))
         THEN Wrapped("KeyError")
         ELSE IF ~config_ok THEN Wrapped("ConfigError")
         ELSE Returned(ConfigValue(
                  bucket_map[bucket_type][Upper(project_name)]))
    ELSE IF document_type = NoneType THEN Wrapped("AttributeError")
    ELSE IF ~HasDict(bucket_map[bucket_type], document_type)
    THEN Wrapped("KeyError")
    ELSE IF ~Has(bucket_map[bucket_type][document_type],
                 TargetKey(document_type, Upper(project_name),
                           sap_masterdata))
    THEN Wrapped("KeyError")
    ELSE IF ~config_ok THEN Wrapped("ConfigError")
    ELSE Returned(ConfigValue(
             bucket_map[bucket_type][document_type][
                 TargetKey(document_type, Upper(project_name),
                           sap_masterdata)]))

DocumentTypes == {ORDER, MASTER_DATA, NoneType}

BucketTypes == {"raw_bucket", "target_bucket", "archive_bucket"}

ProjectNames == {"dksh_tw", "DKSH_TW", "DKSH_VN", "UNKNOWN", NoneType}

\* the arguments of one call; sap_masterdata None is FALSE
BucketInputs ==
    [bucket_map : BucketMaps, config_ok : BOOLEAN,
     document_type : DocumentTypes, bucket_type : BucketTypes,
     project_name : ProjectNames, sap_masterdata : BOOLEAN]

BucketCall(in) ==
    get_bucket_name(in.bucket_map, in.config_ok, in.document_type,
                    in.bucket_type, in.project_name, in.sap_masterdata)

BktInit ==
    /\ bktIn \in BucketInputs
    /\ bktOut = <<>>
    /\ bktPc = "input"
    /\ KeyIdle
    /\ WkIdle
    /\ WfInit
    /\ SelIdle
    /\ RawIdle
    /\ CallIdle

ResolveBucket ==
    /\ bktPc = "input"
    /\ bktOut' = BucketCall(bktIn)
    /\ bktPc' = "called"
    /\ UNCHANGED bktIn
    /\ UNCHANGED <<selVars, wfVars, rawVars, keyVars, callVars, wkVars>>

BktNext == ResolveBucket

SpecBucket == BktInit /\ [][BktNext]_vars

\* C14: a raw bucket is resolved from the project name only (the result does
\* not depend on document type or master-data flag); a target bucket is
\* resolved from the document type's mapping under the key "sap_masterdata"
\* exactly when the document type is MASTER_DATA and the flag is set, and
\* under the upper-cased project name in every other case.
C14_BucketKeyedByRole ==
    bktPc = "called" =>
        LET map == bktIn.bucket_map
            doc == bktIn.document_type
            P == Upper(bktIn.project_name)
            key == IF doc = MASTER_DATA /\ bktIn.sap_masterdata
                   THEN "sap_masterdata" ELSE P
        IN  /\ bktIn.bucket_type = "raw_bucket" =>
                /\ \A dt \in DocumentTypes, f \in BOOLEAN :
                       BucketCall([bktIn EXCEPT !.document_type = dt,
                                                !.sap_masterdata = f]) = bktOut
                /\ bktOut.kind = "return" =>
                       bktOut.val = ConfigValue(map["raw_bucket"][P])
            /\ (/\ bktIn.bucket_type = "target_bucket"
                /\ bktIn.project_name # NoneType
                /\ doc # NoneType
                /\ HasDict(map, "target_bucket")
                /\ HasDict(map["target_bucket"], doc)) =>
                   IF key \in DOMAIN map["target_bucket"][doc]
                          /\ bktIn.config_ok
                   THEN bktOut
                            = Returned(ConfigValue(map["target_bucket"][doc][key]))
                   ELSE bktOut.kind # "return"

C14_Witness ==
    /\ bktPc = "called"
    /\ bktIn.bucket_type = "target_bucket"
    /\ bktIn.document_type = MASTER_DATA
    /\ bktIn.sap_masterdata
    /\ bktIn.project_name = "dksh_tw"
    /\ bktOut = Returned(ConfigValue("sap_master"))

\* the call names a project, a bucket role or a document type that BUCKET_MAP
\* does not map
Unmapped(in) ==
    IF in.project_name = NoneType THEN TRUE
    ELSE IF ~HasDict(in.bucket_map, in.bucket_type) THEN TRUE
    ELSE IF in.bucket_type = "raw_bucket"
    THEN Upper(in.project_name) \notin DOMAIN in.bucket_map[in.bucket_type]
    ELSE IF in.document_type = NoneType THEN TRUE
    ELSE IF ~HasDict(in.bucket_map[in.bucket_type], in.document_type) THEN TRUE
    ELSE (IF in.document_type = MASTER_DATA /\ in.sap_masterdata
          THEN "sap_masterdata" ELSE Upper(in.project_name))
             \notin DOMAIN in.bucket_map[in.bucket_type][in.document_type]

-----------------------------------------------------------------------------
(* utils/read_n_write_s3.py: the gateway called directly, call after call,  *)
(* on one bucket                                                            *)

MaxGwCalls == 3

GwBucket == "target-bucket"

GwKeys == { <<"t", SLASH, "a", JSON>>, <<"t", SLASH, "b", JSON>> }

GwPrefixes == { <<"t", SLASH>>, <<"u", SLASH>> }

GwPayloads == { [a |-> 1], [a |-> 2] }

GwInit ==
    /\ gwCalls = 0
    /\ gwLast = <<>>
    /\ ProcIdle
    /\ ResolverIdle
    /\ WkIdle
    /\ WfInit
    /\ SelIdle
    /\ RawIdle

\* what the record keeps of one call: failed says that the connector, the
\* storage call or the decoding failed, or that the object is missing
GwRecord(op, failed, raised, value) ==
    [op |-> op, failed |-> failed, raised |-> raised, value |-> value]

GwList ==
    /\ gwCalls < MaxGwCalls
    /\ \E prefix \in GwPrefixes, conn \in BOOLEAN, op \in BOOLEAN :
        /\ GwBucket \in connectors => conn
        /\ \E l \in { list_objects_with_prefix(store, connectors, GwBucket,
                                                prefix, conn, op) } :
            /\ gwLast' = GwRecord("list", ~(conn /\ op), l.raised, l.keys)
            /\ connectors' = l.cache
    /\ gwCalls' = gwCalls + 1
    /\ UNCHANGED <<store, tracking, workflow, stepIdx, runState, runs,
                   context, trace, failure>>
    /\ UNCHANGED <<selVars, rawVars, resolverVars, procVars, wkVars>>

\* get_object on the client of a connector the caller holds
GwGet ==
    /\ gwCalls < MaxGwCalls
    /\ \E key \in GwKeys, exc \in StorageErrors :
        \E g \in { get_object(store, key, exc) } :
            gwLast' = GwRecord("get",
                               exc # "" \/ key \notin { o.key : o \in store },
                               g.raised, g.buffer)
    /\ gwCalls' = gwCalls + 1
    /\ UNCHANGED wfVars
    /\ UNCHANGED <<selVars, rawVars, resolverVars, procVars, wkVars>>

GwRead ==
    /\ gwCalls < MaxGwCalls
    /\ \E key \in GwKeys, conn \in BOOLEAN, op \in BOOLEAN :
        /\ GwBucket \in connectors => conn
        /\ \E r \in { read_json_from_s3(store, connectors, GwBucket,
                                         SomeKey(key), conn, op) } :
            /\ gwLast' = GwRecord("read",
                                  ~(conn /\ op)
                                      \/ key \notin { o.key : o \in store },
                                  r.raised, r.data)
            /\ connectors' = r.cache
    /\ gwCalls' = gwCalls + 1
    /\ UNCHANGED <<store, tracking, workflow, stepIdx, runState, runs,
                   context, trace, failure>>
    /\ UNCHANGED <<selVars, rawVars, resolverVars, procVars, wkVars>>

GwWrite ==
    /\ gwCalls < MaxGwCalls
    /\ \E key \in GwKeys, json_data \in GwPayloads, conn \in BOOLEAN,
          op \in BOOLEAN :
        /\ GwBucket \in connectors => conn
        /\ \E w \in { write_json_to_s3(store, connectors, json_data, GwBucket,
                                        key, conn, op) } :
            /\ gwLast' = GwRecord("write", ~(conn /\ op), w.raised, w.result)
            /\ store' = w.objs
            /\ connectors' = w.cache
    /\ gwCalls' = gwCalls + 1
    /\ UNCHANGED <<tracking, workflow, stepIdx, runState, runs, context,
                   trace, failure>>
    /\ UNCHANGED <<selVars, rawVars, resolverVars, procVars, wkVars>>

GwNext == GwList \/ GwGet \/ GwRead \/ GwWrite

SpecGateway == GwInit /\ [][GwNext]_vars

\* C19: the lookup operations of the gateway never raise: on any storage,
\* connection or parse failure list_objects_with_prefix returns the empty
\* list and get_object and read_json_from_s3 return nil.
C19_LookupsNeverRaise ==
    (gwCalls > 0 /\ gwLast.op \in {"list", "get", "read"}) =>
        /\ ~gwLast.raised
        /\ gwLast.failed =>
               IF gwLast.op = "list" THEN gwLast.value = <<>>
               ELSE gwLast.value = None

C19_Witness ==
    /\ gwCalls > 0
    /\ gwLast.op = "list"
    /\ gwLast.failed
    /\ connectors = {}
    /\ gwLast.value = <<>>

\* C20: the gateway's write_json_to_s3 always returns a result record
\* {status, error, key}: every failure, failure to obtain the bucket
\* connection included, is reported as status Failed with the error text,
\* and the call never raises.
C20_WriteAlwaysReturnsResult ==
    (gwCalls > 0 /\ gwLast.op = "write") =>
        /\ ~gwLast.raised
        /\ gwLast.value.status \in {"Success", "Failed"}
        /\ gwLast.failed =>
               (gwLast.value.status = "Failed" /\ gwLast.value.error # "")

-----------------------------------------------------------------------------
(* utils/file_extraction.py, processors/workflow_processors and             *)
(* processors/helpers/txt_helper.py: the step processors of one request     *)

\* FileExtensionProcessor._get_document_type: MASTER_DATA when a part of the
\* path is "master_data" in any case, else ORDER
get_document_type(file_path) ==
    LET lower(part) == IF part = "MASTER_DATA" THEN "master_data" ELSE part
    IN  IF \E i \in 1..Len(file_path) : lower(file_path[i]) = MASTER_DATA
        THEN MASTER_DATA ELSE ORDER

\* Path(file_path).suffix: the last token when it is an extension
PathSuffix(file_path) ==
    LET last == file_path[Len(file_path)]
    IN  IF last \in {".txt", ".csv", ".exe"} THEN last ELSE ""

\* FileExtensionProcessor(tracking_model): _prepare_object resolves the
\* document type and the two bucket names, loads the object, then takes the
\* extension (one of the supported types .txt and .csv) and the size.
\* env: config, load and head say whether the configuration lookup, the
\* download and head_object succeed.
FileExtensionProcessor(tracking_model, bucket_map, env) ==
    LET file_path == tracking_model.file_path
        document_type == get_document_type(file_path)
        raw == get_bucket_name(bucket_map, env.config, document_type,
                               "raw_bucket", tracking_model.project_name,
                               tracking_model.sap_masterdata)
        target == get_bucket_name(bucket_map, env.config, document_type,
                                  "target_bucket", tracking_model.project_name,
                                  tracking_model.sap_masterdata)
        file_name == SplitLast(file_path, SLASH)
    IN  IF raw.kind # "return" \/ target.kind # "return"
        THEN [raised |-> TRUE, exc |-> "ValueError"]
        ELSE IF ~env.load THEN [raised |-> TRUE, exc |-> "FileNotFoundError"]
        ELSE IF PathSuffix(file_path) \notin {".txt", ".csv"}
        THEN [raised |-> TRUE, exc |-> "ValueError"]
        ELSE IF ~env.head THEN [raised |-> TRUE, exc |-> "FileNotFoundError"]
        ELSE [raised |-> FALSE, exc |-> "", document_type |-> document_type,
              raw_bucket_name |-> raw.val, target_bucket_name |-> target.val,
              file_path |-> file_path, file_name |-> file_name,
              file_name_wo_ext |-> SubSeq(file_name, 1, Len(file_name) - 1),
              file_extension |-> PathSuffix(file_path)]

extract_metadata_failed_output(tracking_model, bucket_map, env) ==
    LET file_processor == FileExtensionProcessor(tracking_model, bucket_map, env)
    IN  IF file_processor.raised
        THEN [kind |-> "return",
              out |-> StepOutput(None, FAILED, <<<<file_processor.exc>>>>),
              file_record |-> None]
        ELSE [kind |-> "return", out |-> StepOutput(TRUE, SUCCESS, <<>>),
              file_record |->
                  [file_path |-> file_processor.file_path,
                   file_name |-> file_processor.file_name,
                   file_name_wo_ext |-> file_processor.file_name_wo_ext,
                   document_type |-> file_processor.document_type,
                   raw_bucket_name |-> file_processor.raw_bucket_name,
                   target_bucket_name |-> file_processor.target_bucket_name,
                   proceed_at |-> "today", folder_name |-> <<"None">>,
                   customer_foldername |-> <<"None">>]]

\* kind is "return" with the StepOutput and the record left on the processor
\* (the keys it does not set read as None), or "raise" with the exception
\* that extract_metadata logs and raises again
extract_metadata(tracking_model, bucket_map, env) ==
    LET file_processor == FileExtensionProcessor(tracking_model, bucket_map, env)
    IN  IF file_processor.raised
        THEN [kind |-> "raise", out |-> Exception(file_processor.exc),
              file_record |-> None]
        ELSE [kind |-> "return", out |-> StepOutput(TRUE, SUCCESS, <<>>),
              file_record |->
                  [file_path |-> file_processor.file_path,
                   file_name |-> file_processor.file_name,
                   file_name_wo_ext |-> file_processor.file_name_wo_ext,
                   document_type |-> file_processor.document_type,
                   raw_bucket_name |-> file_processor.raw_bucket_name,
                   target_bucket_name |-> file_processor.target_bucket_name,
                   proceed_at |-> "today", folder_name |-> <<"None">>,
                   customer_foldername |-> <<"None">>]]

\* TxtHelper.parse_file_to_json: extract_text constructs a
\* FileExtensionProcessor of its own; _get_document_type returns None
TxtHelper_parse_file_to_json(tracking_model, bucket_map, env) ==
    LET file_object == FileExtensionProcessor(tracking_model, bucket_map, env)
    IN  IF file_object.raised
        THEN [kind |-> "raise", out |-> Exception(file_object.exc)]
        ELSE [kind |-> "return",
              out |-> [original_file_path |-> tracking_model.file_path,
                       document_type |-> None, step_status |-> SUCCESS,
                       messages |-> <<>>]]

send_to_no_message(input_data) ==
    IF input_data.output = None
    THEN [kind |-> "raise", out |-> Exception("AttributeError")]
    ELSE [kind |-> "return",
          out |-> StepOutput([input_data.output EXCEPT
                                  !.step_status = FAILED,
                                  !.messages = <<"Processor 'SEND_TO' is not define">>],
                             FAILED, <<>>)]

\* rule_mapping_processor/send_to.py: the placeholder processor
send_to(input_data) ==
    IF input_data.output = None
    THEN [kind |-> "raise", out |-> Exception("AttributeError")]
    ELSE [kind |-> "return",
          out |-> StepOutput([input_data.output EXCEPT
                                  !.step_status = FAILED,
                                  !.messages = <<"Processor 'SEND_TO' is not define">>],
                             FAILED, <<<<"Processor 'SEND_TO' is not define">>>>)]

\* calls made on the processor after extract_metadata
MaxProcCalls == 2

\* tracking models and bucket maps of the requests
ProcInputs ==
    { [tracking_model |->
           [request_id |-> "req", file_path |-> fp, project_name |-> pn,
            sap_masterdata |-> m, rerun_attempt |-> NoneAttempt],
       bucket_map |-> bm] :
        fp \in { <<"p", SLASH, "f", ".txt">>,
                 <<"MASTER_DATA", SLASH, "f", ".txt">>,
                 <<"master_data", SLASH, "f", ".csv">>,
                 <<"p", SLASH, "f", ".exe">> },
        pn \in {"DKSH_TW", "UNKNOWN"}, m \in BOOLEAN,
        bm \in { b \in BucketMaps : Has(b, "target_bucket") } }

InitProc ==
    /\ RawInit
    /\ SelIdle
    /\ ResolverIdle
    /\ WkIdle
    /\ GwIdle
    /\ procIn \in ProcInputs
    /\ fileRecord = [kind |-> "None"]
    /\ resolutions = 0
    /\ procCalls = 0
    /\ procLast = [kind |-> "None"]

\* the request goes on while no step has raised
ProcLive == procLast.kind # "raise"

\* what one call leaves: the step, how it ended, and what it returned
ProcRecord(name, kind, out) == [name |-> name, kind |-> kind, out |-> out]

\* the first step of the request
ProcExtractMetadata ==
    /\ ProcLive
    /\ fileRecord = [kind |-> "None"]
    /\ \E env \in [config : BOOLEAN, load : BOOLEAN, head : BOOLEAN] :
        \E r \in { extract_metadata(procIn.tracking_model, procIn.bucket_map,
                                    env) } :
            /\ fileRecord' = IF r.kind = "return" THEN r.file_record
                             ELSE fileRecord
            /\ procLast' = ProcRecord("extract_metadata", r.kind, r.out)
    /\ resolutions' = resolutions + 1
    /\ UNCHANGED <<procIn, procCalls>>
    /\ UNCHANGED <<wfVars, selVars, rawVars, resolverVars, gwVars, wkVars>>

ProcParseTxt ==
    /\ ProcLive
    /\ fileRecord # [kind |-> "None"]
    /\ procCalls < MaxProcCalls
    /\ \E env \in [config : BOOLEAN, load : BOOLEAN, head : BOOLEAN] :
        \E r \in { TxtHelper_parse_file_to_json(procIn.tracking_model,
                                                procIn.bucket_map, env) } :
            procLast' = ProcRecord("parse_file_to_json", r.kind, r.out)
    /\ resolutions' = resolutions + 1
    /\ procCalls' = procCalls + 1
    /\ UNCHANGED <<procIn, fileRecord>>
    /\ UNCHANGED <<wfVars, selVars, rawVars, resolverVars, gwVars, wkVars>>

ProcWriteJson ==
    /\ ProcLive
    /\ fileRecord # [kind |-> "None"]
    /\ procCalls < MaxProcCalls
    /\ \E input_data \in GwPayloads, conn \in BOOLEAN, op \in BOOLEAN :
        \E w \in { step_write_json_to_s3(store, connectors, fileRecord,
                                         input_data, <<"f", JSON>>, conn, op) } :
            /\ (fileRecord.target_bucket_name \in connectors => conn)
            /\ store' = w.objs
            /\ connectors' = w.cache
            /\ procLast' = ProcRecord("write_json_to_s3", "return", w.out)
    /\ procCalls' = procCalls + 1
    /\ UNCHANGED <<procIn, fileRecord, resolutions>>
    /\ UNCHANGED <<tracking, workflow, stepIdx, runState, runs, context, trace, failure>>
    /\ UNCHANGED <<selVars, rawVars, resolverVars, gwVars, wkVars>>

ProcWriteRaw ==
    /\ ProcLive
    /\ fileRecord # [kind |-> "None"]
    /\ procCalls < MaxProcCalls
    /\ \E env \in RawOutcomes :
        \E r \in { write_raw_to_s3(store, connectors, DateStr,
                                   procIn.tracking_model, fileRecord, env) } :
            /\ (env.copy1 = "raise" =>
                   env.lconn /\ env.lop /\ env.copy2 = "Success")
            /\ (fileRecord.target_bucket_name \in connectors => env.lconn)
            /\ store' = r.objs
            /\ connectors' = r.cache
            /\ procLast' = ProcRecord("write_raw_to_s3", "return", r.out)
    /\ procCalls' = procCalls + 1
    /\ UNCHANGED <<procIn, fileRecord, resolutions>>
    /\ UNCHANGED <<tracking, workflow, stepIdx, runState, runs, context, trace, failure>>
    /\ UNCHANGED <<selVars, rawVars, resolverVars, gwVars, wkVars>>

ProcSendTo ==
    /\ ProcLive
    /\ fileRecord # [kind |-> "None"]
    /\ procCalls < MaxProcCalls
    /\ \E output \in {None, [step_status |-> SUCCESS, messages |-> <<>>]} :
        \E r \in { send_to(StepOutput(output, SUCCESS, <<>>)) } :
            procLast' = ProcRecord("send_to", r.kind, r.out)
    /\ procCalls' = procCalls + 1
    /\ UNCHANGED <<procIn, fileRecord, resolutions>>
    /\ UNCHANGED <<wfVars, selVars, rawVars, resolverVars, gwVars, wkVars>>

\* a step run through the executor
ProcExecuteStep ==
    /\ ProcLive
    /\ fileRecord # [kind |-> "None"]
    /\ procCalls < MaxProcCalls
    /\ \E step \in { WorkflowStep("PARSE", 1), WorkflowStep("WRITE", 2),
                     WorkflowStep("UNKNOWN_STEP", 3) } :
        \E env \in OutcomesFor(connectors, fileRecord, step) :
        \E e \in { execute_step(store, connectors, DateStr,
                                procIn.tracking_model, fileRecord,
                                EmptyContext, step, env) } :
            /\ store' = e.objs
            /\ connectors' = e.cache
            /\ procLast' = ProcRecord("execute_step", e.kind, e.result)
    /\ procCalls' = procCalls + 1
    /\ UNCHANGED <<procIn, fileRecord, resolutions>>
    /\ UNCHANGED <<tracking, workflow, stepIdx, runState, runs, context, trace, failure>>
    /\ UNCHANGED <<selVars, rawVars, resolverVars, gwVars, wkVars>>

\* the outputs an execution of the PARSE step of this request has persisted
PersistedPayloads ==
    { [step_status |-> "1", po_number |-> "3"],
      [step_status |-> "2", po_number |-> "3"], [po_number |-> "3"] }

\* an execution of the request persists the output of its PARSE step
ProcPersisted ==
    /\ ProcLive
    /\ fileRecord # [kind |-> "None"]
    /\ procCalls < MaxProcCalls
    /\ \E a \in {NoneAttempt, 2}, json_data \in PersistedPayloads :
        \E key \in { get_s3_key_prefix(DateStr,
                         procIn.tracking_model.request_id, fileRecord,
                         WorkflowStep("PARSE", 1), PROCESS_DEFINITIONS["PARSE"],
                         a, procIn.tracking_model.sap_masterdata, "", TRUE,
                         <<>>).val } :
        \E w \in { write_json_to_s3(store, connectors, json_data,
                                    fileRecord.target_bucket_name, key,
                                    TRUE, TRUE) } :
            /\ store' = w.objs
            /\ connectors' = w.cache
            /\ procLast' = ProcRecord("persisted", "return", w.result)
    /\ procCalls' = procCalls + 1
    /\ UNCHANGED <<procIn, fileRecord, resolutions>>
    /\ UNCHANGED <<tracking, workflow, stepIdx, runState, runs, context, trace, failure>>
    /\ UNCHANGED <<selVars, rawVars, resolverVars, gwVars, wkVars>>

\* the processor looks up the stored result of its PARSE step
ProcLookup ==
    /\ ProcLive
    /\ fileRecord # [kind |-> "None"]
    /\ procCalls < MaxProcCalls
    /\ \E env \in [lconn : BOOLEAN, lop : BOOLEAN, rconn : BOOLEAN,
                   rop : BOOLEAN] :
        \E r \in { get_step_result_from_s3(store, connectors, DateStr,
                       procIn.tracking_model, fileRecord,
                       WorkflowStep("PARSE", 1), PROCESS_DEFINITIONS["PARSE"],
                       env.lconn, env.lop, env.rconn, env.rop) } :
            /\ (fileRecord.target_bucket_name \in connectors
                   => env.lconn /\ env.rconn)
            /\ (env.lconn => env.rconn)
            /\ connectors' = r.cache
            /\ procLast' = ProcRecord("get_step_result_from_s3",
                   IF r.kind \in {"data", "None"} THEN "return" ELSE "raise",
                   [data |-> r.data, key |-> r.key, before |-> store,
                    readable |-> (env.lconn \/ env.rconn) /\ env.rop])
    /\ procCalls' = procCalls + 1
    /\ UNCHANGED <<procIn, fileRecord, resolutions>>
    /\ UNCHANGED <<store, tracking, workflow, stepIdx, runState, runs, context, trace, failure>>
    /\ UNCHANGED <<selVars, rawVars, resolverVars, gwVars, wkVars>>

\* step_handler.extract(ctx, result, ctx_key, result_key): one extraction
\* rule copies a field of the step's result into the context; it fails when
\* the result has no such field
extract(ctx, result, ctx_key, result_key) ==
    IF result_key \in DOMAIN result
    THEN [raised |-> FALSE, ctx |-> (ctx_key :> result[result_key]) @@ ctx]
    ELSE [raised |-> TRUE, ctx |-> ctx]

extract_to_wrapper_unwrapped(ctx, result, ctx_key, result_key) ==
    extract(ctx, result, ctx_key, result_key)

\* extract_to_wrapper(extract): a failing rule is logged and leaves None
\* under its context key
extract_to_wrapper(ctx, result, ctx_key, result_key) ==
    LET e == extract(ctx, result, ctx_key, result_key)
    IN  IF e.raised
        THEN [raised |-> FALSE, ctx |-> (ctx_key :> None) @@ ctx]
        ELSE e

RECURSIVE apply_extract_to(_, _, _)
\* step 7 of execute_step: every rule of extract_to (context key -> field of
\* the result) is applied through the wrapper; a rule that raises ends it
apply_extract_to(ctx, result, extract_to) ==
    IF DOMAIN extract_to = {} THEN [raised |-> FALSE, ctx |-> ctx]
    ELSE LET ctx_key == CHOOSE k \in DOMAIN extract_to : TRUE
             e == extract_to_wrapper(ctx, result, ctx_key, extract_to[ctx_key])
             rest == [k \in DOMAIN extract_to \ {ctx_key} |-> extract_to[k]]
         IN  IF e.raised THEN e
             ELSE apply_extract_to(e.ctx, result, rest)

\* the extract_to dictionaries of the step definitions
ExtractRules ==
    { EmptyDict, "some_field" :> "value", "some_field" :> "absent",
      ("some_field" :> "absent") @@ ("other_field" :> "value") }

\* the executor applies the extraction rules of a step to its result
ProcExtractTo ==
    /\ ProcLive
    /\ fileRecord # [kind |-> "None"]
    /\ procCalls < MaxProcCalls
    /\ \E extract_to \in ExtractRules, status \in {SUCCESS, FAILED} :
        \E result \in { StepOutput([value |-> 123, po_number |-> "3"], status,
                                   IF status = SUCCESS THEN <<>>
                                   ELSE <<<<StepError>>>>) } :
        \E e \in { apply_extract_to(context, result.output, extract_to) } :
            /\ context' = e.ctx
            /\ procLast' = ProcRecord("extract_to",
                               IF e.raised THEN "raise" ELSE "return",
                               [result |-> result, given |-> result,
                                extract_to |-> extract_to])
    /\ procCalls' = procCalls + 1
    /\ UNCHANGED <<procIn, fileRecord, resolutions>>
    /\ UNCHANGED <<store, connectors, tracking, workflow, stepIdx, runState, runs, trace, failure>>
    /\ UNCHANGED <<selVars, rawVars, resolverVars, gwVars, wkVars>>

ProcNext ==
    \/ ProcExtractMetadata
    \/ ProcParseTxt
    \/ ProcWriteJson
    \/ ProcWriteRaw
    \/ ProcSendTo
    \/ ProcExecuteStep
    \/ ProcPersisted
    \/ ProcLookup
    \/ ProcExtractTo

SpecProcessors == InitProc /\ [][ProcNext]_vars

\* the calls that return a StepOutput
StepOutputReturned ==
    /\ procLast.kind = "return"
    /\ procLast.name \in {"extract_metadata", "write_json_to_s3",
                          "write_raw_to_s3", "send_to", "execute_step"}

\* C16: a StepOutput with status SUCCESS carries no failure messages, and one
\* with status FAILED carries at least one; so success and the absence of
\* messages go together.
C16_StatusAgreesWithMessages ==
    StepOutputReturned =>
        /\ (procLast.out.step_status = SUCCESS
               <=> procLast.out.step_failure_message = <<>>)
        /\ (procLast.out.step_status = FAILED
               => Len(procLast.out.step_failure_message) >= 1)

C16_Witness ==
    /\ procLast.kind = "return"
    /\ procLast.name = "send_to"
    /\ procLast.out.step_status = FAILED
    /\ procLast.out.step_failure_message # <<>>

\* C17: the document type and the bucket names of a request are resolved
\* once, by extract_metadata; no later step resolves them again.
C17_ResolvedExactlyOnce ==
    fileRecord # [kind |-> "None"] => resolutions = 1

\* C21: extraction sets the document type MASTER_DATA exactly when a segment
\* of the file path is literally equal to the master-data marker, and ORDER
\* for every other path.
C21_MasterDataOnlyForLiteralMarker ==
    fileRecord # [kind |-> "None"] =>
        (fileRecord.document_type = MASTER_DATA
            <=> \E i \in 1..Len(fileRecord.file_path) :
                    fileRecord.file_path[i] = MASTER_DATA)

\* the requests whose extraction fails whatever storage answers: an
\* unsupported extension, or a project without a raw bucket
ExtractionMustFail ==
    \/ PathSuffix(procIn.tracking_model.file_path) \notin {".txt", ".csv"}
    \/ procIn.tracking_model.project_name = "UNKNOWN"

C29_KeyIsAlwaysAString ==
    (KeyCalled /\ keyOut.key.kind # "AttributeError")
        => keyOut.key.kind = "str"

\* the orders in which a key list can be given
Reorderings(keys) ==
    { [i \in 1..Len(keys) |-> keys[p[i]]] :
        p \in { q \in [1..Len(keys) -> 1..Len(keys)] :
                  \A i, j \in 1..Len(keys) : q[i] = q[j] => i = j } }

\* C30: select_latest_rerun does not depend on the order of its key list and
\* returns only a member of it: every reordering of the list gives the same
\* key, and the key is nil or one of the given keys.
C30_SelectIgnoresOrder ==
    selPc = "selected" =>
        /\ \A ks \in Reorderings(selKeys) :
               select_latest_rerun(ks, selBase) = selResult
        /\ selResult.kind = "key" =>
               \E i \in 1..Len(selKeys) : selKeys[i] = selResult.key

\* C25: a cache hit is gated by the rerun attempt: on an original run (rerun
\* attempt nil or 1) a persistable step is always executed, and an object
\* already stored under the step's prefix is never returned as a prior
\* result.
C25_OriginalRunNeverReuses ==
    \A t \in Entries :
        (t.looked /\ tracking.rerun_attempt \in {NoneAttempt, 1}) => ~t.hit

\* C24: get_step_result_from_s3 returns the decoded stored payload whenever a
\* key is selected and readable, whatever the payload's step_status; nil is
\* returned only when no readable object is found.
C24_StoredPayloadReturnedWhateverStatus ==
    (procLast.kind = "return" /\ procLast.name = "get_step_result_from_s3") =>
        LET found == { o \in procLast.out.before :
                         /\ procLast.out.key.kind = "key"
                         /\ o.key = procLast.out.key.key }
        IN  /\ (procLast.out.readable /\ found # {}) =>
                   \E o \in found :
                       procLast.out.data = WithJsonOutput(o.payload, o.key)
            /\ procLast.out.data = None =>
                   (~procLast.out.readable \/ found = {})

C24_Witness ==
    /\ procLast.kind = "return"
    /\ procLast.name = "get_step_result_from_s3"
    /\ "step_status" \in DOMAIN procLast.out.data
    /\ procLast.out.data.step_status = "2"

-----------------------------------------------------------------------------
(* utils/read_n_write_s3.py under concurrent workflow runs: the gateway    *)
(* operations of two workers interleave on the shared _s3_connectors        *)

Workers == {"w1", "w2"}

\* gateway operations one worker begins
MaxWkOps == 2

RawBucket == "raw-bucket"

\* the operations and the bucket whose connector each one needs: the
\* destination for the cached operations, the source for a copy
WkCalls ==
    { [op |-> "write_json_to_s3", bucket |-> GwBucket],
      [op |-> "read_json_from_s3", bucket |-> GwBucket],
      [op |-> "list_objects_with_prefix", bucket |-> RawBucket],
      [op |-> "any_json_in_s3_prefix", bucket |-> RawBucket],
      [op |-> "copy_object_between_buckets", bucket |-> RawBucket],
      [op |-> "write_raw_to_s3", bucket |-> GwBucket] }

WkAt(pc, call, cached, version, ops) ==
    [pc |-> pc, op |-> call.op, bucket |-> call.bucket, cached |-> cached,
     version |-> version, ops |-> ops]

InitWorkers ==
    /\ RawInit
    /\ SelIdle
    /\ ResolverIdle
    /\ CallIdle
    /\ workers = [w \in Workers |->
                     WkAt("idle", [op |-> "", bucket |-> ""], FALSE, 0, 0)]
    /\ built = 0

WkFrame ==
    /\ UNCHANGED <<tracking, workflow, stepIdx, runState, runs, context, trace, failure>>
    /\ UNCHANGED <<selVars, rawVars, resolverVars, callVars>>

\* a worker enters a gateway operation; cached says whether the cache held
\* the bucket's connector at that moment
WkBegin ==
    /\ \E w \in Workers, call \in WkCalls :
        /\ workers[w].pc \in {"idle", "KeyError"}
        /\ workers[w].ops < MaxWkOps
        /\ workers' = [workers EXCEPT ![w] =
               WkAt(CASE call.op = "copy_object_between_buckets" -> "copy"
                      [] call.op = "write_raw_to_s3" -> "raw_flat"
                      [] OTHER -> "check",
                    call, call.bucket \in connectors, 0, workers[w].ops + 1)]
    /\ UNCHANGED <<store, connectors, built>>
    /\ WkFrame

\* "if bucket_name not in _s3_connectors"
WkCheck ==
    /\ \E w \in Workers :
        /\ workers[w].pc = "check"
        /\ workers' = [workers EXCEPT ![w].pc =
               IF workers[w].bucket \in connectors THEN "use"
               ELSE "construct"]
    /\ UNCHANGED <<store, connectors, built>>
    /\ WkFrame

\* "_s3_connectors[bucket_name] = S3Connector(bucket_name)"; a construction
\* that raises ends the operation
WkConstruct ==
    /\ \E w \in Workers, conn \in BOOLEAN :
        /\ workers[w].pc = "construct"
        /\ built' = built + 1
        /\ connectors' = IF conn THEN CacheWith(connectors, workers[w].bucket)
                         ELSE connectors
        /\ workers' = [workers EXCEPT ![w].pc = IF conn THEN "use" ELSE "idle"]
    /\ UNCHANGED store
    /\ WkFrame

\* "client = _s3_connectors[bucket_name].client" and the storage call; the
\* lookup of a bucket the cache does not hold is a KeyError
WkUse ==
    /\ \E w \in Workers, json_data \in GwPayloads :
        /\ workers[w].pc = "use"
        /\ IF workers[w].bucket \notin connectors
           THEN /\ workers' = [workers EXCEPT ![w].pc = "KeyError"]
                /\ UNCHANGED store
           ELSE /\ workers' = [workers EXCEPT ![w].pc = "idle"]
                /\ store' = IF workers[w].op = "write_json_to_s3"
                            THEN write_json_to_s3(store, connectors, json_data,
                                     workers[w].bucket,
                                     <<"t", SLASH, w, JSON>>, TRUE, TRUE).objs
                            ELSE store
    /\ UNCHANGED <<connectors, built>>
    /\ WkFrame

\* copy_object_between_buckets constructs S3Connector(source_bucket) itself
WkCopy ==
    /\ \E w \in Workers :
        /\ workers[w].pc = "copy"
        /\ workers' = [workers EXCEPT ![w].pc = "idle"]
    /\ built' = built + 1
    /\ UNCHANGED <<store, connectors>>
    /\ WkFrame

\* write_raw_to_s3, the flat copy of the raw file
WkRawFlat ==
    /\ \E w \in Workers :
        /\ workers[w].pc = "raw_flat"
        /\ store' = copy_object_between_buckets(store,
                        RawFileRecord("a").file_path,
                        StrResult(<<"master_data", SLASH, "a", SLASH, "a", ".csv">>),
                        "Success").objs
        /\ workers' = [workers EXCEPT ![w].pc = "raw_list"]
    /\ built' = built + 1
    /\ UNCHANGED connectors
    /\ WkFrame

\* write_raw_to_s3, the listing of the versions and the number it gives
WkRawList ==
    /\ \E w \in Workers :
        /\ workers[w].pc = "raw_list"
        /\ \E l \in { list_objects_with_prefix(store, connectors,
                          workers[w].bucket, <<"versioning", SLASH, "a", SLASH>>,
                          TRUE, TRUE) } :
            /\ connectors' = l.cache
            /\ built' = IF workers[w].bucket \in connectors THEN built
                        ELSE built + 1
            /\ workers' = [workers EXCEPT
                   ![w].pc = "raw_copy",
                   ![w].version = NextVersionNumber(l.keys, <<"a">>)]
    /\ UNCHANGED store
    /\ WkFrame

\* write_raw_to_s3, the copy under the version folder
WkRawCopy ==
    /\ \E w \in Workers :
        /\ workers[w].pc = "raw_copy"
        /\ store' = copy_object_between_buckets(store,
                        RawFileRecord("a").file_path,
                        StrResult(<<"versioning", SLASH, "a", SLASH>>
                                      \o Fmt03(workers[w].version)
                                      \o <<SLASH, "a", ".csv">>),
                        "Success").objs
        /\ workers' = [workers EXCEPT ![w].pc = "idle"]
    /\ built' = built + 1
    /\ UNCHANGED connectors
    /\ WkFrame

WkNext ==
    \/ WkBegin
    \/ WkCheck
    \/ WkConstruct
    \/ WkUse
    \/ WkCopy
    \/ WkRawFlat
    \/ WkRawList
    \/ WkRawCopy

SpecWorkers == InitWorkers /\ [][WkNext]_vars

\* the operations of the gateway itself
GatewayOps ==
    { "write_json_to_s3", "read_json_from_s3", "list_objects_with_prefix",
      "any_json_in_s3_prefix", "copy_object_between_buckets" }

\* C22: once a connector for a bucket exists in the gateway's cache, every
\* later gateway operation on that bucket (JSON write, JSON read, list, copy,
\* any-JSON check) reuses it and constructs no new one.
C22_CachedConnectorIsReused ==
    [][\A w \in Workers :
          (/\ workers'[w] # workers[w]
           /\ workers[w].op \in GatewayOps
           /\ workers[w].pc \notin {"idle", "KeyError"}
           /\ workers[w].cached)
              => built' = built]_vars

\* C23: under any interleaving of gateway operations that access the same
\* bucket for the first time, no cache entry is ever removed, every operation
\* that reaches its storage call finds a connector for its own bucket, and
\* the race only constructs a connector more than once.
C23_CacheSurvivesRaces ==
    /\ [](\A w \in Workers : workers[w].pc # "KeyError")
    /\ [](connectors \subseteq {GwBucket, RawBucket})
    /\ [][connectors \subseteq connectors']_vars

C23_Witness ==
    /\ \A w \in Workers :
          /\ workers[w].op = "write_json_to_s3"
          /\ workers[w].ops = 1
          /\ workers[w].pc = "use"
          /\ ~workers[w].cached
    /\ built = 2
    /\ connectors = {GwBucket}

\* C28: two runs that execute write_raw_to_s3 concurrently for the same file
\* stem are assigned distinct version numbers under every interleaving of
\* their list and copy operations.
C28_ConcurrentVersionsAreDistinct ==
    \A w1, w2 \in Workers :
        (/\ w1 # w2
         /\ workers[w1].op = "write_raw_to_s3"
         /\ workers[w2].op = "write_raw_to_s3"
         /\ workers[w1].version > 0
         /\ workers[w2].version > 0)
            => workers[w1].version # workers[w2].version

====
